---- MODULE Spec2Model ----
EXTENDS Integers, Sequences, FiniteSets, TLC

(***************************************************************************)
(* fanbox-dl: the sequential download pipeline of src/main.rs and the      *)
(* PostClient of src/lib.rs (pagination stream, get_post, content model).  *)
(***************************************************************************)

\* ---------------------------------------------------------------- bounds
MaxPages == 2
MaxItems == 2
MaxPosts == 3
MaxBlocks == 2

\* ------------------------------------------------------------- utilities
\* Option<T>: None is the empty sequence, Some(x) the one-element sequence.
None == << >>
Some(x) == << x >>
IsSome(o) == o # << >>
Unwrap(o) == o[1]

SeqUpTo(S, n) == UNION { [1..k -> S] : k \in 0..n }

RECURSIVE Flatten(_)
Flatten(ss) == IF ss = << >> THEN << >> ELSE Head(ss) \o Flatten(Tail(ss))

\* HashMap::get
MapGet(m, k) == IF k \in DOMAIN m THEN Some(m[k]) ELSE None

EmptyMap == [k \in {} |-> << >>]

Range(s) == { s[i] : i \in 1..Len(s) }

\* ------------------------------------------------------------ time values
\* chrono::DateTime<Utc>: whole seconds and the sub-second nanoseconds.
DateTime(s, n) == [secs |-> s, nsecs |-> n]
timestamp(dt) == dt.secs
timestamp_subsec_nanos(dt) == dt.nsecs

\* filetime::FileTime::from_unix_time(seconds, nanos)
from_unix_time(s, n) == [seconds |-> s, nanos |-> n]

\* The mtime argument every call site builds from a post's updated_datetime.
FileTimeOfWholeSeconds(dt) == from_unix_time(timestamp(dt), 0)
FileTimeOf(dt) == from_unix_time(timestamp(dt), timestamp_subsec_nanos(dt))

\* What the filesystem writes as mtime when a file is created or written:
\* the wall clock, which is no post's updatedAt.
WallClock == from_unix_time(99, 99)

\* ------------------------------------------------------- the remote (wire)
CreatorId == "creator"

Image(id, ext, url) == [id |-> id, extension |-> ext, original_url |-> url]
File(id, ext, name, url) == [id |-> id, extension |-> ext, name |-> name, url |-> url]

WireUrlEmbed(type, url, html) == [type |-> type, url |-> url, html |-> html]

WireBlock(type, text, imageId, fileId, embedId, urlEmbedId) ==
  [type |-> type, text |-> text, imageId |-> imageId, fileId |-> fileId,
   embedId |-> embedId, urlEmbedId |-> urlEmbedId]

\* The "body" member of a post.info answer (null when the viewer may not see it).
WireBody(text, images, files, blocks, imageMap, fileMap, embedMap, urlEmbedMap) ==
  [text |-> text, images |-> images, files |-> files, blocks |-> blocks,
   imageMap |-> imageMap, fileMap |-> fileMap, embedMap |-> embedMap,
   urlEmbedMap |-> urlEmbedMap]

WirePost(id, cover, dt, type, body) ==
  [id |-> id, title |-> "title", coverImageUrl |-> cover, updatedDatetime |-> dt,
   creatorId |-> CreatorId, type |-> type, body |-> body]

NoBlocks == << >>
PlainBody(text, images, files) ==
  WireBody(text, images, files, NoBlocks, EmptyMap, EmptyMap, EmptyMap, EmptyMap)

Img1 == Image("i1", "png", "https://img/i1")
Img2 == Image("i2", "jpg", "https://img/i2")
File1 == File("f1", "zip", "one.zip", "https://file/f1")
File2 == File("f2", "pdf", "two.pdf", "https://file/f2")

ImageMap == ("i1" :> Img1)
FileMap == ("f1" :> File1)
EmbedMap == ("m1" :> [serviceProvider |-> "twitter", contentId |-> "c1"])
UrlEmbedMap ==
  ("e1" :> WireUrlEmbed("default", "https://x/e1", ""))
  @@ ("e2" :> WireUrlEmbed("html", "", "<b>e2</b>"))
  @@ ("e3" :> WireUrlEmbed("html.card", "", "<b>e2</b>"))
\* the same map with one entry whose type tag this program does not know
UrlEmbedMapNewTag == UrlEmbedMap @@ ("e4" :> WireUrlEmbed("fanbox.post", "", ""))

BlockP == WireBlock("p", "para", "", "", "", "")
BlockHeader == WireBlock("header", "head", "", "", "", "")
BlockImage(id) == WireBlock("image", "", id, "", "", "")
BlockFile(id) == WireBlock("file", "", "", id, "", "")
BlockEmbed(id) == WireBlock("embed", "", "", "", id, "")
BlockUrlEmbed(id) == WireBlock("url_embed", "", "", "", "", id)
BlockNewTag == WireBlock("video", "", "", "", "", "")

ArticleBody(blocks, urlEmbedMap) ==
  WireBody("", << >>, << >>, blocks, ImageMap, FileMap, EmbedMap, urlEmbedMap)

Dt1 == DateTime(10, 0)
Dt2 == DateTime(20, 500)
Dt3 == DateTime(30, 999)

\* ------------------------------------------- content model of src/main.rs
\* Result<T, E> of a deserializer: Some(value) for Ok, None for Err.
MainBlockTags == {"p", "image", "file", "url_embed"}
MainUrlEmbedTags == {"default", "html", "html.card"}
MainBodyTags == {"image", "article", "file", "text"}

Block(kind, text, id) == [kind |-> kind, text |-> text, id |-> id]

\* enum ArticleBlock, tag = "type", no catch-all variant
MainParseArticleBlock(b) ==
  CASE b.type = "p" -> Some(Block("P", b.text, ""))
    [] b.type = "image" -> Some(Block("Image", "", b.imageId))
    [] b.type = "file" -> Some(Block("File", "", b.fileId))
    [] b.type = "url_embed" -> Some(Block("UrlEmbed", "", b.urlEmbedId))
    [] OTHER -> None

UrlEmbed(kind, url, html) == [kind |-> kind, url |-> url, html |-> html]

\* enum UrlEmbed, tag = "type", no catch-all variant
MainParseUrlEmbed(e) ==
  CASE e.type = "default" -> Some(UrlEmbed("Default", e.url, ""))
    [] e.type = "html" -> Some(UrlEmbed("Html", "", e.html))
    [] e.type = "html.card" -> Some(UrlEmbed("HtmlCard", "", e.html))
    [] OTHER -> None

Body(variant, text, images, files, blocks, image_map, file_map, url_embed_map) ==
  [variant |-> variant, text |-> text, images |-> images, files |-> files,
   blocks |-> blocks, image_map |-> image_map, file_map |-> file_map,
   url_embed_map |-> url_embed_map]

\* struct PostBodyArticleBody: every block and every map entry must deserialize
MainParseArticleBody(wb) ==
  IF /\ \A i \in 1..Len(wb.blocks) : IsSome(MainParseArticleBlock(wb.blocks[i]))
     /\ \A k \in DOMAIN wb.urlEmbedMap : IsSome(MainParseUrlEmbed(wb.urlEmbedMap[k]))
  THEN Some(Body("Article", "", << >>, << >>,
                 [i \in 1..Len(wb.blocks) |-> Unwrap(MainParseArticleBlock(wb.blocks[i]))],
                 wb.imageMap, wb.fileMap,
                 [k \in DOMAIN wb.urlEmbedMap |-> Unwrap(MainParseUrlEmbed(wb.urlEmbedMap[k]))]))
  ELSE None

\* enum PostBody, tag = "type", no catch-all variant; the variant's struct needs
\* a non-null "body" member.
MainParsePostBody(w) ==
  IF w.type \notin MainBodyTags \/ w.body = None THEN None
  ELSE LET wb == Unwrap(w.body) IN
    CASE w.type = "image" ->
           Some(Body("Image", wb.text, wb.images, << >>, << >>, EmptyMap, EmptyMap, EmptyMap))
      [] w.type = "file" ->
           Some(Body("File", wb.text, << >>, wb.files, << >>, EmptyMap, EmptyMap, EmptyMap))
      [] w.type = "text" ->
           Some(Body("Text", wb.text, << >>, << >>, << >>, EmptyMap, EmptyMap, EmptyMap))
      [] w.type = "article" -> MainParseArticleBody(wb)

PostInfo(w) ==
  [id |-> w.id, title |-> w.title, cover_image_url |-> w.coverImageUrl,
   updated_datetime |-> w.updatedDatetime, creator_id |-> w.creatorId]

\* struct PostInfoResponseBody: info flattened, body a flattened Option, which
\* serde turns into None whenever the inner value fails to deserialize.
MainParseInfoResponseBody(w) == [info |-> PostInfo(w), body |-> MainParsePostBody(w)]

\* ------------------------------------------- content model of src/lib.rs
LibParseArticleBlock(b) ==
  CASE b.type = "p" -> Block("P", b.text, "")
    [] b.type = "header" -> Block("Header", b.text, "")
    [] b.type = "image" -> Block("Image", "", b.imageId)
    [] b.type = "file" -> Block("File", "", b.fileId)
    [] b.type = "embed" -> Block("Embed", "", b.embedId)
    [] b.type = "url_embed" -> Block("UrlEmbed", "", b.urlEmbedId)
    [] OTHER -> Block("Unknown", "", "")

LibParseUrlEmbed(e) ==
  CASE e.type = "default" -> UrlEmbed("Default", e.url, "")
    [] e.type = "html" -> UrlEmbed("Html", "", e.html)
    [] e.type = "html.card" -> UrlEmbed("HtmlCard", "", e.html)
    [] OTHER -> UrlEmbed("Unknown", "", "")

LibParseEmbed(e) ==
  IF e.serviceProvider \in {"twitter", "fanbox", "youtube"}
  THEN [kind |-> e.serviceProvider, content_id |-> e.contentId]
  ELSE [kind |-> "Unknown", content_id |-> ""]

LibBody(variant, text, images, files, blocks, image_map, file_map, embed_map, url_embed_map) ==
  [variant |-> variant, text |-> text, images |-> images, files |-> files,
   blocks |-> blocks, image_map |-> image_map, file_map |-> file_map,
   embed_map |-> embed_map, url_embed_map |-> url_embed_map]

LibUnknownBody ==
  LibBody("Unknown", "", << >>, << >>, << >>, EmptyMap, EmptyMap, EmptyMap, EmptyMap)

\* enum PostBody with #[serde(other)] Unknown
LibParsePostBodyNoCatchAll(w) ==
  IF w.type \notin MainBodyTags \/ w.body = None THEN None
  ELSE LET wb == Unwrap(w.body) IN
    CASE w.type = "image" ->
           Some(LibBody("Image", wb.text, wb.images, << >>, << >>,
                        EmptyMap, EmptyMap, EmptyMap, EmptyMap))
      [] w.type = "file" ->
           Some(LibBody("File", wb.text, << >>, wb.files, << >>,
                        EmptyMap, EmptyMap, EmptyMap, EmptyMap))
      [] w.type = "text" ->
           Some(LibBody("Text", wb.text, << >>, << >>, << >>,
                        EmptyMap, EmptyMap, EmptyMap, EmptyMap))
      [] w.type = "article" ->
           Some(LibBody("Article", "", << >>, << >>,
                        [i \in 1..Len(wb.blocks) |-> LibParseArticleBlock(wb.blocks[i])],
                        wb.imageMap, wb.fileMap,
                        [k \in DOMAIN wb.embedMap |-> LibParseEmbed(wb.embedMap[k])],
                        [k \in DOMAIN wb.urlEmbedMap |-> LibParseUrlEmbed(wb.urlEmbedMap[k])]))
LibParsePostBody(w) ==
  IF w.type \notin MainBodyTags THEN Some(LibUnknownBody)
  ELSE LibParsePostBodyNoCatchAll(w)

\* struct Post
LibParsePost(w) == [info |-> PostInfo(w), body |-> LibParsePostBody(w)]

\* ------------------------------------------------ what the remote answers
PageUrl(k) == "https://api.fanbox.cc/post.listCreator?page=" \o ToString(k)

\* post.paginateCreator: an ordered list of opaque page URLs
Indexes == { [i \in 1..n |-> PageUrl(i)] : n \in 0..MaxPages }

CoverUrl == "https://img/cover"

\* post.info, one post per id: a text post, a post the viewer may not see
\* (body null), an image post with a cover, a file post, a post whose type tag
\* is new, and an article.
CatalogPosts ==
  { WirePost("T", None, Dt1, "text", Some(PlainBody("hello", << >>, << >>))),
    WirePost("N", Some(CoverUrl), Dt1, "image", None),
    WirePost("I", Some(CoverUrl), Dt2, "image", Some(PlainBody("pics", <<Img1, Img2>>, << >>))),
    WirePost("F", None, Dt3, "file", Some(PlainBody("files", << >>, <<File1, File2>>))),
    WirePost("V", Some(CoverUrl), Dt2, "video", Some(PlainBody("new", << >>, << >>))),
    WirePost("R", None, Dt3, "article",
             Some(ArticleBody(<<BlockImage("i1"), BlockP>>, UrlEmbedMap))) }

PostIds == { w.id : w \in CatalogPosts }

\* post.listCreator: an ordered list of post summaries
Pages == SeqUpTo(PostIds, MaxItems)

\* the bytes a GET of url streams, in the order they arrive
Chunks(url) == << <<"chunk", url, "1">>, <<"chunk", url, "2">> >>

\* ------------------------------------------------------------------ state
VARIABLES
  pc,               \* where main (and the renderer or download_to it awaits) stands
  resp_body,        \* the rest of `for list_creator_url in resp.body`
  list_creator_url, \* the page URL being listed
  items,            \* the rest of `for item in resp.body.items`
  item,             \* the item being processed (its id)
  info,             \* Option: the parsed post.info answer of the item
  todo,             \* the rest of the renderer's loop over images, files or blocks
  index_lines,      \* the renderer's index_lines
  dl,               \* Option: the running download_to call (url, path, mtime, ret)
  file,             \* download_to's file handle: "none", "open" or "closed"
  stream,           \* the chunks of the response body not yet copied
  fs,               \* the files on disk: path -> [data, mtime]
  dirs,             \* the directories on disk below dest_dir
  inflight,         \* Option: the HTTP request that has been sent and not finished
  reqs,             \* every HTTP request sent so far, in order
  warns,            \* every tracing::warn! so far, in order
  err,              \* Option: the failure that ended the run
  listed,           \* every item the listing has returned so far, in order
  fetched,          \* every post.info answer so far: [wire, has_body], the answer
                    \* and whether main found a body in it
  consumer,         \* lib.rs: what the holder of the pagination stream is doing
  yielded,          \* lib.rs: every item the stream has handed to its consumer
  got,              \* lib.rs: Option, what get_post returned for the last item
  first_run         \* Option: what an earlier run of main sent and left on disk

loopVars == <<resp_body, list_creator_url, items, item>>
postVars == <<info, todo, index_lines>>
dlVars == <<dl, file, stream>>
diskVars == <<fs, dirs>>
httpVars == <<inflight, reqs>>
histVars == <<warns, listed, fetched, first_run>>
libVars == <<consumer, yielded, got>>
vars == <<pc, resp_body, list_creator_url, items, item, info, todo, index_lines,
          dl, file, stream, fs, dirs, inflight, reqs, warns, err, listed, fetched,
          consumer, yielded, got, first_run>>

Req(kind, target) == [kind |-> kind, target |-> target]
\* dest_dir.join(dir).join(name), as the OS resolves it: a name is one more
\* component below dir, unless it holds separators and "..", and of those the
\* remote of this model sends one
Elsewhere == ("../T/index.html" :> <<"T", "index.html">>)
Path(dir, name) == IF name \in DOMAIN Elsewhere THEN Elsewhere[name] ELSE <<dir, name>>

Blank ==
  /\ resp_body = << >>
  /\ list_creator_url = ""
  /\ items = << >>
  /\ item = ""
  /\ info = None
  /\ todo = << >>
  /\ index_lines = << >>
  /\ dl = None
  /\ file = "none"
  /\ stream = << >>
  /\ fs = EmptyMap
  /\ dirs = {}
  /\ inflight = None
  /\ reqs = << >>
  /\ warns = << >>
  /\ err = None
  /\ listed = << >>
  /\ fetched = << >>
  /\ consumer = "none"
  /\ yielded = << >>
  /\ got = None
  /\ first_run = None

\* main has parsed its arguments and built its client: main.rs 16-52
Init == pc = "main" /\ Blank

\* `?` on an Err: main returns it with its context, nothing else runs.
\* op and phase say which operation failed and where; ctx and target are what
\* the code puts into the error.
Error(op, phase, ctx, target) == [op |-> op, phase |-> phase, ctx |-> ctx, target |-> target]
Fail(op, phase, ctx, target) ==
  /\ pc' = "failed"
  /\ err' = Some(Error(op, phase, ctx, target))

\* client.get(..).send()
Send(kind, target) ==
  /\ reqs' = Append(reqs, Req(kind, target))
  /\ inflight' = Some(Req(kind, target))

\* the three ways a JSON request fails: .send(), .error_for_status(), .json()
JsonFailures == {"send", "status", "read"}

\* ------------------------------------------------------ main: the listing
\* main.rs 54-58
MainStart ==
  /\ pc = "main"
  /\ Send("post.paginateCreator", CreatorId)
  /\ pc' = "await_paginateCreator"
  /\ UNCHANGED <<libVars, loopVars, postVars, dlVars, diskVars, histVars, err>>

PaginateCreatorContext(f) ==
  CASE f = "send" -> "failed to send post.paginateCreator request"
    [] f = "status" -> "post.paginateCreator returns error"
    [] f = "read" -> "failed to read post.paginateCreator response"

PaginateCreatorFailRetries ==
  /\ pc = "await_paginateCreator"
  /\ inflight' = None
  /\ pc' = "main"
  /\ UNCHANGED <<libVars, loopVars, postVars, dlVars, diskVars, histVars, reqs, err>>

\* main.rs 59-64, an Err
PaginateCreatorFail ==
  /\ pc = "await_paginateCreator"
  /\ \E f \in JsonFailures : Fail("post.paginateCreator", f, PaginateCreatorContext(f), CreatorId)
  /\ inflight' = None
  /\ UNCHANGED <<libVars, loopVars, postVars, dlVars, diskVars, histVars, reqs>>

\* main.rs 54-64, Ok
PaginateCreatorOk(indexes) ==
  /\ pc = "await_paginateCreator"
  /\ \E urls \in indexes : resp_body' = urls
  /\ inflight' = None
  /\ pc' = "page_loop"
  /\ UNCHANGED <<libVars, list_creator_url, items, item, postVars, dlVars, diskVars, histVars,
                 reqs, err>>

\* main.rs 66-71: the next page URL, and its request
PageLoopNext ==
  /\ pc = "page_loop"
  /\ resp_body # << >>
  /\ list_creator_url' = Head(resp_body)
  /\ resp_body' = Tail(resp_body)
  /\ Send("post.listCreator", Head(resp_body))
  /\ pc' = "await_listCreator"
  /\ UNCHANGED <<libVars, items, item, postVars, dlVars, diskVars, histVars, err>>

\* main.rs 66, 136: no page URL is left, Ok(())
MainReturnOk ==
  /\ pc = "page_loop"
  /\ resp_body = << >>
  /\ pc' = "done"
  /\ UNCHANGED <<libVars, loopVars, postVars, dlVars, diskVars, httpVars, histVars, err>>

ListCreatorContext(f) ==
  CASE f = "send" -> "failed to send post.listCreator request"
    [] f = "status" -> "post.listCreator returns error"
    [] f = "read" -> "failed to read post.listCreator response"

\* main.rs 72-87, an Err
ListCreatorFail ==
  /\ pc = "await_listCreator"
  /\ \E f \in JsonFailures : Fail("post.listCreator", f, ListCreatorContext(f), list_creator_url)
  /\ inflight' = None
  /\ UNCHANGED <<libVars, loopVars, postVars, dlVars, diskVars, histVars, reqs>>

\* main.rs 68-87, Ok (the remote holds at most MaxPosts posts)
ListCreatorOk(pages) ==
  /\ pc = "await_listCreator"
  /\ \E its \in pages :
       /\ Len(listed) + Len(its) <= MaxPosts
       /\ items' = its
       /\ listed' = listed \o its
  /\ inflight' = None
  /\ pc' = "item_loop"
  /\ UNCHANGED <<libVars, resp_body, list_creator_url, item, postVars, dlVars, diskVars,
                 warns, fetched, reqs, err, first_run>>

ItemLoopNextFromTheEnd ==
  /\ pc = "item_loop"
  /\ items # << >>
  /\ item' = items[Len(items)]
  /\ items' = SubSeq(items, 1, Len(items) - 1)
  /\ Send("post.info", items[Len(items)])
  /\ pc' = "await_info"
  /\ UNCHANGED <<libVars, resp_body, list_creator_url, postVars, dlVars, diskVars, histVars, err>>

\* main.rs 88-93: the next item, and its post.info request
ItemLoopNext ==
  /\ pc = "item_loop"
  /\ items # << >>
  /\ item' = Head(items)
  /\ items' = Tail(items)
  /\ Send("post.info", Head(items))
  /\ pc' = "await_info"
  /\ UNCHANGED <<libVars, resp_body, list_creator_url, postVars, dlVars, diskVars, histVars, err>>

\* main.rs 88, 134: the page has no item left
ItemLoopEnd ==
  /\ pc = "item_loop"
  /\ items = << >>
  /\ pc' = "page_loop"
  /\ UNCHANGED <<libVars, loopVars, postVars, dlVars, diskVars, httpVars, histVars, err>>

InfoContextOfSend(f) == "failed to send post.info request"
InfoContext(f) ==
  CASE f = "send" -> "failed to send post.info request"
    [] f = "status" -> "post.info returns error"
    [] f = "read" -> "failed to read post.info response"

\* main.rs 94-102, an Err
InfoFail ==
  /\ pc = "await_info"
  /\ \E f \in JsonFailures : Fail("post.info", f, InfoContext(f), item)
  /\ inflight' = None
  /\ UNCHANGED <<libVars, loopVars, postVars, dlVars, diskVars, histVars, reqs>>

\* main.rs 90-102, Ok: the answer is the post asked for
InfoOk(posts) ==
  /\ pc = "await_info"
  /\ \E w \in posts :
       /\ w.id = item
       /\ info' = Some(MainParseInfoResponseBody(w))
       /\ fetched' = Append(fetched, [wire |-> w,
                                      has_body |-> IsSome(MainParseInfoResponseBody(w).body)])
  /\ inflight' = None
  /\ pc' = "got_info"
  /\ UNCHANGED <<libVars, loopVars, todo, index_lines, dlVars, diskVars, warns, listed, reqs, err, first_run>>

\* ------------------------------------------------- main: one fetched post
Post == Unwrap(info)
PostBody == Unwrap(Post.body)
DestDir == Post.info.id

WarnNoPermissionAfterCreateDir ==
  /\ pc = "got_info"
  /\ Post.body = None
  /\ dirs' = dirs \cup {Post.info.id}
  /\ warns' = Append(warns, [what |-> "no permission to see post", id |-> Post.info.id])
  /\ info' = None
  /\ pc' = "item_loop"
  /\ UNCHANGED <<libVars, loopVars, todo, index_lines, dlVars, fs, httpVars, listed,
                 fetched, err, first_run>>

\* main.rs 103, 126-132: body is None
WarnNoPermission ==
  /\ pc = "got_info"
  /\ Post.body = None
  /\ warns' = Append(warns, [what |-> "no permission to see post", id |-> Post.info.id])
  /\ info' = None
  /\ pc' = "item_loop"
  /\ UNCHANGED <<libVars, loopVars, todo, index_lines, dlVars, diskVars, httpVars, listed,
                 fetched, err, first_run>>

\* main.rs 103-107, create_dir_all fails
CreateDirAllFail ==
  /\ pc = "got_info"
  /\ IsSome(Post.body)
  /\ Fail("create_dir_all", "create_dir", "failed to create directory", DestDir)
  /\ UNCHANGED <<libVars, loopVars, postVars, dlVars, diskVars, httpVars, histVars>>

\* main.rs 103-125: create_dir_all, then the renderer of the body's variant
CreateDirAll ==
  /\ pc = "got_info"
  /\ IsSome(Post.body)
  /\ dirs' = dirs \cup {DestDir}
  /\ pc' = "render"
  /\ UNCHANGED <<libVars, loopVars, postVars, dlVars, fs, httpVars, histVars, err>>

\* ------------------------------------------------------------ download_to
\* a call download_to(client, url, path, &info.updated_datetime).await?
CallDownloadTo(url, path, ret) ==
  /\ dl' = Some([url |-> url, path |-> path, mtime |-> Post.info.updated_datetime,
                 ret |-> ret])
  /\ file' = "none"
  /\ stream' = << >>
  /\ pc' = "dl_create"

Download == Unwrap(dl)

FsWrite(path, data, mtime) ==
  [p \in DOMAIN fs \cup {path} |->
     IF p = path THEN [data |-> data, mtime |-> mtime] ELSE fs[p]]

\* main.rs 576-578, File::create fails
DlCreateFail ==
  /\ pc = "dl_create"
  /\ Fail("download_to", "create", "failed to create", Download.path)
  /\ UNCHANGED <<libVars, loopVars, postVars, dlVars, diskVars, httpVars, histVars>>

DlCreateUnlessExists ==
  /\ pc = "dl_create"
  /\ Download.path[1] \in dirs
  /\ IF Download.path \in DOMAIN fs
     THEN /\ pc' = Download.ret
          /\ dl' = None
          /\ UNCHANGED <<fs, file, httpVars>>
     ELSE /\ fs' = FsWrite(Download.path, << >>, WallClock)
          /\ file' = "open"
          /\ Send("GET", Download.url)
          /\ pc' = "dl_await"
          /\ UNCHANGED dl
  /\ UNCHANGED <<libVars, loopVars, postVars, stream, dirs, histVars, err>>

\* main.rs 576-581: File::create truncates or creates the file (it creates no
\* directory: the one the path resolves into must be there), the GET is sent
DlCreate ==
  /\ pc = "dl_create"
  /\ Download.path[1] \in dirs
  /\ fs' = FsWrite(Download.path, << >>, WallClock)
  /\ file' = "open"
  /\ Send("GET", Download.url)
  /\ pc' = "dl_await"
  /\ UNCHANGED <<libVars, loopVars, postVars, dl, stream, dirs, histVars, err>>

DownloadContext(f) ==
  CASE f = "send" -> "failed to send request"
    [] f = "status" -> "failed to get"

DlResponseFailSkipsAsset ==
  /\ pc = "dl_await"
  /\ \E f \in {"send", "status"} :
       err' = Some(Error("download_to", f, DownloadContext(f), Download.url))
  /\ pc' = Download.ret
  /\ dl' = None
  /\ file' = "none"
  /\ inflight' = None
  /\ UNCHANGED <<libVars, loopVars, postVars, stream, diskVars, histVars, reqs>>

\* main.rs 582-585, an Err: the file handle is dropped on return
DlResponseFail ==
  /\ pc = "dl_await"
  /\ \E f \in {"send", "status"} : Fail("download_to", f, DownloadContext(f), Download.url)
  /\ file' = "closed"
  /\ inflight' = None
  /\ UNCHANGED <<libVars, loopVars, postVars, dl, stream, diskVars, histVars, reqs>>

DlResponseOkDetached ==
  /\ pc = "dl_await"
  /\ stream' = Chunks(Download.url)
  /\ pc' = Download.ret
  /\ dl' = None
  /\ UNCHANGED <<libVars, loopVars, postVars, file, diskVars, httpVars, histVars, err>>

\* main.rs 579-588: a 2xx response, its body a stream of chunks
DlResponseOk ==
  /\ pc = "dl_await"
  /\ stream' = Chunks(Download.url)
  /\ pc' = "dl_copy"
  /\ UNCHANGED <<libVars, loopVars, postVars, dl, file, diskVars, httpVars, histVars, err>>

\* main.rs 589: tokio::io::copy moves one chunk into the file
DlCopyChunk ==
  /\ pc = "dl_copy"
  /\ stream # << >>
  /\ fs' = FsWrite(Download.path, Append(fs[Download.path].data, Head(stream)), WallClock)
  /\ stream' = Tail(stream)
  /\ UNCHANGED <<libVars, pc, loopVars, postVars, dl, file, dirs, httpVars, histVars, err>>

DlCopyFailRemovesFile ==
  /\ pc = "dl_copy"
  /\ Fail("download_to", "copy", "failed to download", Download.url)
  /\ file' = "closed"
  /\ inflight' = None
  /\ fs' = [p \in DOMAIN fs \ {Download.path} |-> fs[p]]
  /\ UNCHANGED <<libVars, loopVars, postVars, dl, stream, dirs, histVars, reqs>>

\* main.rs 589-591, an Err: the stream or the write fails, what was copied stays
DlCopyFail ==
  /\ pc = "dl_copy"
  /\ Fail("download_to", "copy", "failed to download", Download.url)
  /\ file' = "closed"
  /\ inflight' = None
  /\ UNCHANGED <<libVars, loopVars, postVars, dl, stream, diskVars, histVars, reqs>>

DlCopyEndKeepsHandle ==
  /\ pc = "dl_copy"
  /\ stream = << >>
  /\ inflight' = None
  /\ pc' = "dl_stamp"
  /\ UNCHANGED <<libVars, loopVars, postVars, dl, file, stream, diskVars, histVars, reqs, err>>

\* main.rs 589-592: end of stream, copy returns, drop(file)
DlCopyEnd ==
  /\ pc = "dl_copy"
  /\ stream = << >>
  /\ file' = "closed"
  /\ inflight' = None
  /\ pc' = "dl_stamp"
  /\ UNCHANGED <<libVars, loopVars, postVars, dl, stream, diskVars, histVars, reqs, err>>

DlStampFailRollsBack ==
  /\ pc = "dl_stamp"
  /\ Fail("download_to", "set_mtime", "failed to update mtime", Download.path)
  /\ fs' = [p \in { q \in DOMAIN fs : q[1] # DestDir } |-> fs[p]]
  /\ dirs' = dirs \ {DestDir}
  /\ UNCHANGED <<libVars, loopVars, postVars, dlVars, httpVars, histVars>>

\* main.rs 593-597, set_file_mtime fails
DlStampFail ==
  /\ pc = "dl_stamp"
  /\ Fail("download_to", "set_mtime", "failed to update mtime", Download.path)
  /\ UNCHANGED <<libVars, loopVars, postVars, dlVars, diskVars, httpVars, histVars>>

\* main.rs 593-599: set_file_mtime, Ok(()) back to the caller
DlStamp ==
  /\ pc = "dl_stamp"
  /\ fs' = FsWrite(Download.path, fs[Download.path].data, FileTimeOf(Download.mtime))
  /\ pc' = Download.ret
  /\ dl' = None
  /\ file' = "none"
  /\ UNCHANGED <<libVars, loopVars, postVars, stream, dirs, httpVars, histVars, err>>

\* ----------------------------------------------------------- the renderers
\* The lines of index.html, each a format string with its arguments.
TitleLine(i) == <<"<h1><a href='https://{}.fanbox.cc/posts/{}'>{}</a></h1>",
                  i.creator_id, i.id, i.title>>
POpen == <<"<p>">>
PClose == <<"</p>">>
TextLine(text) == <<"<p>{}</p>", text>>
Raw(text) == <<"{}", text>>
ImageLine(image) == <<"<p><img alt='{}' src='./{}.{}' style='width: 100%;'></p>",
                      image.original_url, image.id, image.extension>>
ArticleImageLine(image) == <<"<img alt='{}' src='./{}.{}' style='width: 100%;'>",
                             image.original_url, image.id, image.extension>>
FileLink(f) == <<"<a href='./{}.{}'>{}</a>", f.id, f.extension, f.name>>
UrlLink(url) == <<"<a href='{}'>{}</a>", url, url>>

\* main.rs 315-320, 478-483, 540-545 (three lines); 375-378 (one line)
CoverLines(variant, url) ==
  IF variant = "Article"
  THEN << <<"<p><img alt='{}' src='./cover_image.jpeg'></p>", url>> >>
  ELSE << POpen, <<"<img alt='{}' src='./cover_image.jpeg'>", url>>, PClose >>

AssetName(a) == a.id \o "." \o a.extension

WalkListBackwards(body) ==
  LET l == CASE body.variant = "Image" -> body.images
             [] body.variant = "File" -> body.files
             [] body.variant = "Article" -> body.blocks
             [] body.variant = "Text" -> << >>
  IN [i \in 1..Len(l) |-> l[Len(l) + 1 - i]]

\* the list the variant's renderer walks
WalkList(body) ==
  CASE body.variant = "Image" -> body.images
    [] body.variant = "File" -> body.files
    [] body.variant = "Article" -> body.blocks
    [] body.variant = "Text" -> << >>

RenderTitleThenWalk ==
  /\ pc = "render"
  /\ index_lines' = << TitleLine(Post.info) >>
  /\ todo' = WalkList(PostBody)
  /\ pc' = "walk"
  /\ UNCHANGED <<libVars, loopVars, info, dlVars, diskVars, httpVars, histVars, err>>

\* main.rs 300-304 (361-364, 463-467, 525-529): the title line
RenderTitle ==
  /\ pc = "render"
  /\ index_lines' = << TitleLine(Post.info) >>
  /\ todo' = WalkList(PostBody)
  /\ pc' = "cover"
  /\ UNCHANGED <<libVars, loopVars, info, dlVars, diskVars, httpVars, histVars, err>>

\* main.rs 306-314 (366-374, 469-477, 531-539): the cover image is downloaded
CoverDownload ==
  /\ pc = "cover"
  /\ IsSome(Post.info.cover_image_url)
  /\ CallDownloadTo(Unwrap(Post.info.cover_image_url), Path(DestDir, "cover_image.jpeg"),
                    "cover_done")
  /\ UNCHANGED <<libVars, loopVars, postVars, diskVars, httpVars, histVars, err>>

\* main.rs 306, 321: there is no cover image
CoverAbsent ==
  /\ pc = "cover"
  /\ Post.info.cover_image_url = None
  /\ pc' = "walk"
  /\ UNCHANGED <<libVars, loopVars, postVars, dlVars, diskVars, httpVars, histVars, err>>

\* main.rs 315-320 (375-378, 478-483, 540-545)
CoverDone ==
  /\ pc = "cover_done"
  /\ index_lines' = index_lines \o CoverLines(PostBody.variant, Unwrap(Post.info.cover_image_url))
  /\ pc' = "walk"
  /\ UNCHANGED <<libVars, loopVars, info, todo, dlVars, diskVars, httpVars, histVars, err>>

\* main.rs 323-326: the next image of an image post
ImageNext ==
  /\ pc = "walk"
  /\ PostBody.variant = "Image"
  /\ todo # << >>
  /\ CallDownloadTo(Head(todo).original_url, Path(DestDir, AssetName(Head(todo))), "image_done")
  /\ UNCHANGED <<libVars, loopVars, postVars, diskVars, httpVars, histVars, err>>

\* main.rs 327-331
ImageDone ==
  /\ pc = "image_done"
  /\ index_lines' = Append(index_lines, ImageLine(Head(todo)))
  /\ todo' = Tail(todo)
  /\ pc' = "walk"
  /\ UNCHANGED <<libVars, loopVars, info, dlVars, diskVars, httpVars, histVars, err>>

\* main.rs 333: the text of an image post
ImageEnd ==
  /\ pc = "walk"
  /\ PostBody.variant = "Image"
  /\ todo = << >>
  /\ index_lines' = Append(index_lines, TextLine(PostBody.text))
  /\ pc' = "write_index"
  /\ UNCHANGED <<libVars, loopVars, info, todo, dlVars, diskVars, httpVars, histVars, err>>

\* main.rs 486-489: the next file of a file post
FileNext ==
  /\ pc = "walk"
  /\ PostBody.variant = "File"
  /\ todo # << >>
  /\ CallDownloadTo(Head(todo).url, Path(DestDir, AssetName(Head(todo))), "file_done")
  /\ UNCHANGED <<libVars, loopVars, postVars, diskVars, httpVars, histVars, err>>

\* main.rs 490-496
FileDone ==
  /\ pc = "file_done"
  /\ index_lines' = index_lines \o << POpen, FileLink(Head(todo)), PClose >>
  /\ todo' = Tail(todo)
  /\ pc' = "walk"
  /\ UNCHANGED <<libVars, loopVars, info, dlVars, diskVars, httpVars, histVars, err>>

\* main.rs 498: the text of a file post
FileEnd ==
  /\ pc = "walk"
  /\ PostBody.variant = "File"
  /\ todo = << >>
  /\ index_lines' = Append(index_lines, TextLine(PostBody.text))
  /\ pc' = "write_index"
  /\ UNCHANGED <<libVars, loopVars, info, todo, dlVars, diskVars, httpVars, histVars, err>>

\* main.rs 548: a text post
TextBody ==
  /\ pc = "walk"
  /\ PostBody.variant = "Text"
  /\ index_lines' = Append(index_lines, TextLine(PostBody.text))
  /\ pc' = "write_index"
  /\ UNCHANGED <<libVars, loopVars, info, todo, dlVars, diskVars, httpVars, histVars, err>>

\* -------------------------------------------------- the article renderer
ArticleStep == pc = "walk" /\ PostBody.variant = "Article" /\ todo # << >>
block == Head(todo)

Warning(what, id) == [what |-> what, id |-> id]

\* main.rs 382, 384-386, 435: a paragraph
ArticleP ==
  /\ ArticleStep
  /\ block.kind = "P"
  /\ index_lines' = index_lines \o << POpen, Raw(block.text), PClose >>
  /\ todo' = Tail(todo)
  /\ UNCHANGED <<libVars, pc, loopVars, info, dlVars, diskVars, httpVars, histVars, err>>

ArticleImageHitNotAwaited ==
  /\ ArticleStep
  /\ block.kind = "Image"
  /\ IsSome(MapGet(PostBody.image_map, block.id))
  /\ index_lines' = index_lines \o
       << POpen, ArticleImageLine(PostBody.image_map[block.id]), PClose >>
  /\ todo' = Tail(todo)
  /\ UNCHANGED <<libVars, pc, loopVars, info, dlVars, diskVars, httpVars, histVars, err>>

\* main.rs 382, 387-391: an image block whose id is in image_map
ArticleImageHit ==
  /\ ArticleStep
  /\ block.kind = "Image"
  /\ IsSome(MapGet(PostBody.image_map, block.id))
  /\ index_lines' = Append(index_lines, POpen)
  /\ LET image == PostBody.image_map[block.id] IN
       CallDownloadTo(image.original_url, Path(DestDir, AssetName(image)), "article_image_done")
  /\ UNCHANGED <<libVars, loopVars, info, todo, diskVars, httpVars, histVars, err>>

\* main.rs 392-395, 435
ArticleImageDone ==
  /\ pc = "article_image_done"
  /\ index_lines' = index_lines \o << ArticleImageLine(PostBody.image_map[block.id]), PClose >>
  /\ todo' = Tail(todo)
  /\ pc' = "walk"
  /\ UNCHANGED <<libVars, loopVars, info, dlVars, diskVars, httpVars, histVars, err>>

\* the lines a block leaves when its id is in no map: main.rs 382, 435
MissLines == << POpen, PClose >>

ArticleImageMissIsFatal ==
  /\ ArticleStep
  /\ block.kind = "Image"
  /\ MapGet(PostBody.image_map, block.id) = None
  /\ Fail("download_article_post", "lookup", "image is not available in imageMap", block.id)
  /\ UNCHANGED <<libVars, loopVars, postVars, dlVars, diskVars, httpVars, histVars>>

\* main.rs 382, 396-401, 435: an image block whose id is not in image_map
ArticleImageMiss ==
  /\ ArticleStep
  /\ block.kind = "Image"
  /\ MapGet(PostBody.image_map, block.id) = None
  /\ warns' = Append(warns, Warning("image is not available in imageMap", block.id))
  /\ index_lines' = index_lines \o MissLines
  /\ todo' = Tail(todo)
  /\ UNCHANGED <<libVars, pc, loopVars, info, dlVars, diskVars, httpVars, listed, fetched, err, first_run>>

\* main.rs 382, 403-407: a file block whose id is in file_map
ArticleFileHit ==
  /\ ArticleStep
  /\ block.kind = "File"
  /\ IsSome(MapGet(PostBody.file_map, block.id))
  /\ index_lines' = Append(index_lines, POpen)
  /\ LET f == PostBody.file_map[block.id] IN
       CallDownloadTo(f.url, Path(DestDir, AssetName(f)), "article_file_done")
  /\ UNCHANGED <<libVars, loopVars, info, todo, diskVars, httpVars, histVars, err>>

\* main.rs 408-411, 435
ArticleFileDone ==
  /\ pc = "article_file_done"
  /\ index_lines' = index_lines \o << FileLink(PostBody.file_map[block.id]), PClose >>
  /\ todo' = Tail(todo)
  /\ pc' = "walk"
  /\ UNCHANGED <<libVars, loopVars, info, dlVars, diskVars, httpVars, histVars, err>>

\* main.rs 382, 412-414, 435: a file block whose id is not in file_map
ArticleFileMiss ==
  /\ ArticleStep
  /\ block.kind = "File"
  /\ MapGet(PostBody.file_map, block.id) = None
  /\ warns' = Append(warns, Warning("file is not available in fileMap", block.id))
  /\ index_lines' = index_lines \o MissLines
  /\ todo' = Tail(todo)
  /\ UNCHANGED <<libVars, pc, loopVars, info, dlVars, diskVars, httpVars, listed, fetched, err, first_run>>

UrlEmbedLineCardFramed(url_embed) ==
  CASE url_embed.kind = "Default" -> UrlLink(url_embed.url)
    [] url_embed.kind = "Html" -> Raw(url_embed.html)
    [] url_embed.kind = "HtmlCard" -> <<"<div>{}</div>", url_embed.html>>

\* main.rs 418-426: the line of a URL embed found in url_embed_map
UrlEmbedLine(url_embed) ==
  IF url_embed.kind = "Default" THEN UrlLink(url_embed.url) ELSE Raw(url_embed.html)

\* main.rs 382, 416-426, 435: a URL-embed block whose id is in url_embed_map
ArticleUrlEmbedHit ==
  /\ ArticleStep
  /\ block.kind = "UrlEmbed"
  /\ IsSome(MapGet(PostBody.url_embed_map, block.id))
  /\ index_lines' = index_lines \o
                      << POpen, UrlEmbedLine(PostBody.url_embed_map[block.id]), PClose >>
  /\ todo' = Tail(todo)
  /\ UNCHANGED <<libVars, pc, loopVars, info, dlVars, diskVars, httpVars, histVars, err>>

\* main.rs 382, 427-432, 435: a URL-embed block whose id is not in url_embed_map
ArticleUrlEmbedMiss ==
  /\ ArticleStep
  /\ block.kind = "UrlEmbed"
  /\ MapGet(PostBody.url_embed_map, block.id) = None
  /\ warns' = Append(warns, Warning("url_embed is not available in urlEmbedMap", block.id))
  /\ index_lines' = index_lines \o MissLines
  /\ todo' = Tail(todo)
  /\ UNCHANGED <<libVars, pc, loopVars, info, dlVars, diskVars, httpVars, listed, fetched, err, first_run>>

\* main.rs 381, 436: the block list is exhausted
ArticleEnd ==
  /\ pc = "walk"
  /\ PostBody.variant = "Article"
  /\ todo = << >>
  /\ pc' = "write_index"
  /\ UNCHANGED <<libVars, loopVars, postVars, dlVars, diskVars, httpVars, histVars, err>>

\* ------------------------------------------------------------- index.html
IndexPath == Path(DestDir, "index.html")

\* main.rs 335-338 (438-441, 500-503, 550-553), tokio::fs::write fails: the file
\* is left as it was, or created or truncated without the lines
WriteIndexFail ==
  /\ pc = "write_index"
  /\ \E truncated \in BOOLEAN :
       fs' = IF truncated THEN FsWrite(IndexPath, << >>, WallClock) ELSE fs
  /\ Fail("index.html", "write", "failed to write", IndexPath)
  /\ UNCHANGED <<libVars, loopVars, postVars, dlVars, dirs, httpVars, histVars>>

\* main.rs 335-338 (438-441, 500-503, 550-553): the lines, joined, are the file
WriteIndex ==
  /\ pc = "write_index"
  /\ fs' = FsWrite(IndexPath, index_lines, WallClock)
  /\ pc' = "stamp_index"
  /\ UNCHANGED <<libVars, loopVars, postVars, dlVars, dirs, httpVars, histVars, err>>

\* main.rs 339-346 (442-449, 504-511, 554-561), set_file_mtime fails
StampIndexFail ==
  /\ pc = "stamp_index"
  /\ Fail("index.html", "set_mtime", "failed to update mtime", IndexPath)
  /\ UNCHANGED <<libVars, loopVars, postVars, dlVars, diskVars, httpVars, histVars>>

StampIndexThenWriteAgain ==
  /\ pc = "stamp_index"
  /\ fs' = FsWrite(IndexPath, fs[IndexPath].data, FileTimeOf(Post.info.updated_datetime))
  /\ pc' = "write_index"
  /\ UNCHANGED <<libVars, loopVars, postVars, dlVars, dirs, httpVars, histVars, err>>

\* main.rs 339-348: set_file_mtime, the renderer returns Ok(()), and main goes
\* on with the next item
StampIndex ==
  /\ pc = "stamp_index"
  /\ fs' = FsWrite(IndexPath, fs[IndexPath].data, FileTimeOf(Post.info.updated_datetime))
  /\ info' = None
  /\ index_lines' = << >>
  /\ pc' = "item_loop"
  /\ UNCHANGED <<libVars, loopVars, todo, dlVars, dirs, httpVars, histVars, err>>

\* ------------------------------------------------------ the specifications
Listing ==
  \/ MainStart \/ PaginateCreatorFail \/ PageLoopNext \/ MainReturnOk
  \/ ListCreatorFail \/ ItemLoopNext \/ ItemLoopEnd \/ InfoFail

DownloadTo ==
  \/ DlCreateFail \/ DlCreate \/ DlResponseFail \/ DlResponseOk
  \/ DlCopyChunk \/ DlCopyFail \/ DlCopyEnd \/ DlStampFail \/ DlStamp

PostSkeleton ==
  \/ WarnNoPermission \/ CreateDirAllFail \/ CreateDirAll
  \/ RenderTitle \/ CoverDownload \/ CoverAbsent \/ CoverDone
  \/ WriteIndexFail \/ WriteIndex \/ StampIndexFail \/ StampIndex

PlainRenderers ==
  \/ ImageNext \/ ImageDone \/ ImageEnd
  \/ FileNext \/ FileDone \/ FileEnd
  \/ TextBody

ArticleHits ==
  \/ ArticleP \/ ArticleImageHit \/ ArticleImageDone \/ ArticleEnd

ArticleRest ==
  \/ ArticleImageMiss
  \/ ArticleFileHit \/ ArticleFileDone \/ ArticleFileMiss
  \/ ArticleUrlEmbedHit \/ ArticleUrlEmbedMiss

\* The run of main against a creator whose posts are those of the catalog.
Next ==
  \/ Listing
  \/ PaginateCreatorOk(Indexes)
  \/ ListCreatorOk(Pages)
  \/ InfoOk(CatalogPosts)
  \/ DownloadTo
  \/ PostSkeleton
  \/ PlainRenderers
  \/ ArticleHits

Spec == Init /\ [][Next]_vars

\* The same run when it is not left waiting: main is one task, which takes its
\* next step whenever it has one, and every request sent is answered or fails,
\* every response body ends or fails.
SpecLive == Init /\ [][Next]_vars /\ WF_vars(Next)

\* The run of main against a creator with one post, an article: every block
\* list of at most MaxBlocks blocks, with or without a cover image, the
\* URL-embed map with or without an entry of a new type.
ArticleBlocks ==
  { BlockP, BlockHeader, BlockNewTag, BlockEmbed("m1"),
    BlockImage("i1"), BlockImage("i9"), BlockFile("f1"), BlockFile("f9"),
    BlockUrlEmbed("e1"), BlockUrlEmbed("e2"), BlockUrlEmbed("e3"), BlockUrlEmbed("e9") }

ArticlePosts ==
  { WirePost("R", cover, Dt2, "article", Some(ArticleBody(blocks, m))) :
      cover \in {None, Some(CoverUrl)},
      blocks \in SeqUpTo(ArticleBlocks, MaxBlocks),
      m \in {UrlEmbedMap, UrlEmbedMapNewTag} }

NextArticle ==
  \/ Listing
  \/ PaginateCreatorOk({ << PageUrl(1) >> })
  \/ ListCreatorOk({ << "R" >> })
  \/ InfoOk(ArticlePosts)
  \/ DownloadTo
  \/ PostSkeleton
  \/ ArticleHits
  \/ ArticleRest

SpecArticle == Init /\ [][NextArticle]_vars

\* The run of main against a creator one of whose posts has an image whose id
\* is not a file name but a relative path.
ImgElsewhere == Image("../T/index", "html", "https://img/x")
FramePosts ==
  { w \in CatalogPosts : w.id \in {"T", "N"} }
  \cup { WirePost("X", Some(CoverUrl), Dt2, "image",
                  Some(PlainBody("x", << ImgElsewhere >>, << >>))) }
FramePages == SeqUpTo({ w.id : w \in FramePosts }, MaxItems)

NextFrame ==
  \/ Listing
  \/ PaginateCreatorOk(Indexes)
  \/ ListCreatorOk(FramePages)
  \/ InfoOk(FramePosts)
  \/ DownloadTo
  \/ PostSkeleton
  \/ ImageNext \/ ImageDone \/ ImageEnd
  \/ TextBody

SpecFrame == Init /\ [][NextFrame]_vars

\* The run of main against a creator with one post, an image, file or text post
\* (or one whose body the viewer may not see): every list of at most MaxAssets
\* images or files, the empty one too, with or without a cover image.
MaxAssets == 2
PlainPosts ==
  { WirePost("P", cover, Dt2, "image", body) :
      cover \in {None, Some(CoverUrl)},
      body \in {None} \cup { Some(PlainBody("pics", imgs, << >>)) :
                               imgs \in SeqUpTo({Img1, Img2}, MaxAssets) } }
  \cup
  { WirePost("P", cover, Dt3, "file", Some(PlainBody("files", << >>, files))) :
      cover \in {None, Some(CoverUrl)}, files \in SeqUpTo({File1, File2}, MaxAssets) }
  \cup
  { WirePost("P", None, Dt1, "text", Some(PlainBody("hello", << >>, << >>))) }

NextPlain ==
  \/ Listing
  \/ PaginateCreatorOk({ << PageUrl(1) >> })
  \/ ListCreatorOk({ << "P" >> })
  \/ InfoOk(PlainPosts)
  \/ DownloadTo
  \/ PostSkeleton
  \/ PlainRenderers

SpecPlain == Init /\ [][NextPlain]_vars

\* ------------------------------------------------- src/lib.rs: PostClient
\* enum Error
LibErrorKind(f) ==
  CASE f = "send" -> "HttpRequestError"
    [] f = "status" -> "HttpStatusError"
    [] f = "read" -> "HttpReadError"

\* the items of the stream: Some(Ok(item)), Some(Err(e)), and None at its end
ItemOk(id) == [tag |-> "Ok", v |-> id]
ItemErr(kind) == [tag |-> "Err", v |-> kind]
ItemNone == [tag |-> "None", v |-> ""]

\* a PostClient has been built: lib.rs 26-47
InitClient == pc = "client" /\ Blank

\* lib.rs 49-58: paginate_creator is called and sends the index request
PaginateCreatorCall ==
  /\ pc = "client"
  /\ Send("post.paginateCreator", CreatorId)
  /\ pc' = "await_index"
  /\ UNCHANGED <<loopVars, postVars, dlVars, diskVars, histVars, libVars, err>>

\* lib.rs 59-65, an Err: paginate_creator returns it
ClientIndexFail ==
  /\ pc = "await_index"
  /\ \E f \in JsonFailures :
       err' = Some(Error("post.paginateCreator", f, LibErrorKind(f), CreatorId))
  /\ pc' = "client_failed"
  /\ inflight' = None
  /\ UNCHANGED <<loopVars, postVars, dlVars, diskVars, histVars, libVars, reqs>>

\* lib.rs 54-67, 81: Ok(stream); the generator has not run yet
ClientIndexOk(indexes) ==
  /\ pc = "await_index"
  /\ \E urls \in indexes : resp_body' = urls
  /\ inflight' = None
  /\ pc' = "stream"
  /\ consumer' = "idle"
  /\ UNCHANGED <<list_creator_url, items, item, postVars, dlVars, diskVars, histVars,
                 yielded, got, reqs, err>>

NothingYielded == [tag |-> "", v |-> ""]
LastYielded == IF yielded = << >> THEN NothingYielded ELSE yielded[Len(yielded)]

StreamLive == pc \in {"stream", "stream_await", "stream_done"}

\* the holder of the stream asks for its next item (Stream::poll_next); after
\* the stream has ended it asks at most once more
ConsumerPoll ==
  /\ StreamLive
  /\ consumer = "idle"
  /\ LastYielded # ItemNone
  /\ consumer' = "polling"
  /\ UNCHANGED <<pc, loopVars, postVars, dlVars, diskVars, httpVars, histVars,
                 yielded, got, err>>

\* the holder of the stream stops pulling and drops it, between two items or
\* while the stream waits for a page (the request is then abandoned)
ConsumerDrop ==
  /\ StreamLive
  /\ IF pc = "stream_await" THEN consumer = "polling" ELSE consumer = "idle"
  /\ consumer' = "dropped"
  /\ inflight' = None
  /\ UNCHANGED <<pc, loopVars, postVars, dlVars, diskVars, histVars, yielded, got,
                 reqs, err>>

\* the generator goes to the next page exactly when no item is left to yield
PageExhaustedEager == TRUE
PageExhausted == items = << >>

\* lib.rs 77-79: yield Ok(item)
StreamYield ==
  /\ pc = "stream"
  /\ consumer = "polling"
  /\ items # << >>
  /\ yielded' = Append(yielded, ItemOk(Head(items)))
  /\ item' = Head(items)
  /\ items' = Tail(items)
  /\ got' = None
  /\ consumer' = "idle"
  /\ UNCHANGED <<pc, resp_body, list_creator_url, postVars, dlVars, diskVars, httpVars,
                 histVars, err>>

\* lib.rs 68-72: the next page URL, and its request
StreamNextPage ==
  /\ pc = "stream"
  /\ consumer = "polling"
  /\ PageExhausted
  /\ resp_body # << >>
  /\ list_creator_url' = Head(resp_body)
  /\ resp_body' = Tail(resp_body)
  /\ Send("post.listCreator", Head(resp_body))
  /\ pc' = "stream_await"
  /\ UNCHANGED <<items, item, postVars, dlVars, diskVars, histVars, libVars, err>>

StreamPageFailGoesOn ==
  /\ pc = "stream_await"
  /\ consumer = "polling"
  /\ \E f \in JsonFailures :
       /\ yielded' = Append(yielded, ItemErr(LibErrorKind(f)))
       /\ err' = Some(Error("post.listCreator", f, LibErrorKind(f), list_creator_url))
  /\ inflight' = None
  /\ pc' = "stream"
  /\ consumer' = "idle"
  /\ UNCHANGED <<loopVars, postVars, dlVars, diskVars, histVars, got, reqs>>

\* lib.rs 73-76, an Err: `?` yields it as the stream's last item
StreamPageFail ==
  /\ pc = "stream_await"
  /\ consumer = "polling"
  /\ \E f \in JsonFailures :
       /\ yielded' = Append(yielded, ItemErr(LibErrorKind(f)))
       /\ err' = Some(Error("post.listCreator", f, LibErrorKind(f), list_creator_url))
  /\ inflight' = None
  /\ pc' = "stream_done"
  /\ consumer' = "idle"
  /\ UNCHANGED <<loopVars, postVars, dlVars, diskVars, histVars, got, reqs>>

\* lib.rs 70-77, Ok: the page's items
StreamPageOk(pages) ==
  /\ pc = "stream_await"
  /\ consumer = "polling"
  /\ \E its \in pages :
       /\ Len(listed) + Len(its) <= MaxPosts
       /\ items' = its
       /\ listed' = listed \o its
  /\ inflight' = None
  /\ pc' = "stream"
  /\ UNCHANGED <<resp_body, list_creator_url, item, postVars, dlVars, diskVars, warns,
                 fetched, libVars, reqs, err, first_run>>

\* lib.rs 68, 80: no page URL is left, the stream ends
StreamEnd ==
  /\ pc = "stream"
  /\ consumer = "polling"
  /\ items = << >>
  /\ resp_body = << >>
  /\ yielded' = Append(yielded, ItemNone)
  /\ pc' = "stream_done"
  /\ consumer' = "idle"
  /\ UNCHANGED <<loopVars, postVars, dlVars, diskVars, httpVars, histVars, got, err>>

\* a stream that has ended is polled again: None, and nothing else
StreamPollAfterEnd ==
  /\ pc = "stream_done"
  /\ consumer = "polling"
  /\ yielded' = Append(yielded, ItemNone)
  /\ consumer' = "idle"
  /\ UNCHANGED <<pc, loopVars, postVars, dlVars, diskVars, httpVars, histVars, got, err>>

\* lib.rs 84-89: get_post for the item the stream handed over last
GetPostCall ==
  /\ StreamLive
  /\ consumer = "idle"
  /\ LastYielded.tag = "Ok"
  /\ got = None
  /\ Send("post.info", item)
  /\ consumer' = "get_post"
  /\ UNCHANGED <<pc, loopVars, postVars, dlVars, diskVars, histVars, yielded, got, err>>

GetPostResult(id, error, post) == [id |-> id, error |-> error, post |-> post]

\* lib.rs 90-96, an Err
GetPostFail ==
  /\ consumer = "get_post"
  /\ \E f \in JsonFailures : got' = Some(GetPostResult(item, Some(LibErrorKind(f)), None))
  /\ inflight' = None
  /\ consumer' = "idle"
  /\ UNCHANGED <<pc, loopVars, postVars, dlVars, diskVars, histVars, yielded, reqs, err>>

\* lib.rs 85-97, Ok(info.body)
GetPostOk(posts) ==
  /\ consumer = "get_post"
  /\ \E w \in posts :
       /\ w.id = item
       /\ got' = Some(GetPostResult(item, None, Some(LibParsePost(w))))
       /\ fetched' = Append(fetched, [wire |-> w, has_body |-> IsSome(LibParsePost(w).body)])
  /\ inflight' = None
  /\ consumer' = "idle"
  /\ UNCHANGED <<pc, loopVars, postVars, dlVars, diskVars, warns, listed, yielded, reqs, err, first_run>>

\* A caller of PostClient: it walks the pagination stream, may fetch each item
\* it is handed, and may stop pulling at any time. The creator's posts are a
\* text post, a post the viewer may not see and a post of a new type.
ClientPages == SeqUpTo({"T", "N", "V"}, MaxItems)

NextClient ==
  \/ PaginateCreatorCall \/ ClientIndexFail \/ ClientIndexOk(Indexes)
  \/ ConsumerPoll \/ ConsumerDrop
  \/ StreamYield \/ StreamNextPage \/ StreamPageFail \/ StreamPageOk(ClientPages)
  \/ StreamEnd \/ StreamPollAfterEnd
  \/ GetPostCall \/ GetPostFail \/ GetPostOk(CatalogPosts)

SpecClient == InitClient /\ [][NextClient]_vars

\* ------------------------------------- src/lib.rs: PostClient::download_to
\* lib.rs 113-130 are, statement for statement, main.rs 576-597 without the
\* contexts, so the steps that succeed are DlCreate, DlResponseOk, DlCopyChunk,
\* DlCopyEnd and DlStamp; what differs is what each `?` returns.
MaxDownloads == 2

\* where download_to stands when the step of a phase fails; tokio::io::copy
\* fails either reading the stream or writing the file
LibDownloadPhases ==
  [create |-> "dl_create", send |-> "dl_await", status |-> "dl_await",
   read |-> "dl_copy", write |-> "dl_copy", set_mtime |-> "dl_stamp"]

\* the Error each `?` of download_to returns: lib.rs 113 (From<std::io::Error>),
\* 119, 121, 123 and 125 (the reqwest error is wrapped into a std::io::Error,
\* which copy returns and `?` converts), 130
LibDownloadErrorKind(ph) ==
  CASE ph = "send" -> "HttpRequestError"
    [] ph = "status" -> "HttpStatusError"
    [] ph \in {"create", "read", "write", "set_mtime"} -> "IoError"

\* lib.rs 100-112: a caller downloads some URL to some path, in a directory
\* that is there, with some mtime, whatever the path holds
LibDownloadCall ==
  /\ pc = "client"
  /\ Len(reqs) < MaxDownloads
  /\ \E url \in {"https://img/i1", "https://file/f1"},
        name \in {"i1.png", "f1.zip"}, mtime \in {Dt1, Dt2} :
       dl' = Some([url |-> url, path |-> Path("T", name), mtime |-> mtime, ret |-> "client"])
  /\ file' = "none"
  /\ stream' = << >>
  /\ err' = None
  /\ pc' = "dl_create"
  /\ dirs' = dirs \cup {"T"}
  /\ UNCHANGED <<loopVars, postVars, fs, httpVars, histVars, libVars>>

\* lib.rs 113, 119, 121, 125, 130, an Err: download_to returns it, the file
\* handle (if the file was created) is dropped, the response is dropped
LibDownloadErr ==
  /\ dl # None
  /\ \E ph \in DOMAIN LibDownloadPhases :
       /\ pc = LibDownloadPhases[ph]
       /\ err' = Some(Error("download_to", ph, LibDownloadErrorKind(ph), Download.url))
  /\ file' = IF file = "open" THEN "closed" ELSE file
  /\ inflight' = None
  /\ pc' = Download.ret
  /\ UNCHANGED <<loopVars, postVars, dl, stream, diskVars, histVars, libVars, reqs>>

\* A caller of PostClient::download_to, call after call.
NextDownload ==
  \/ LibDownloadCall \/ LibDownloadErr
  \/ DlCreate \/ DlResponseOk \/ DlCopyChunk \/ DlCopyEnd \/ DlStamp

SpecDownload == InitClient /\ [][NextDownload]_vars


\* ------------------------------------------------------- main, run again
\* What the remote answered in the earlier run, read off the requests of that
\* run: a run that returned Ok(()) requested every page URL of the index and
\* the post.info of every item of every page.
FirstRun == Unwrap(first_run)
AnsweredIndex ==
  LET rs == SelectSeq(FirstRun.reqs, LAMBDA r : r.kind = "post.listCreator")
  IN [k \in 1..Len(rs) |-> rs[k].target]
AnsweredPage(url) ==
  LET rs == FirstRun.reqs
      i == CHOOSE k \in 1..Len(rs) : rs[k] = Req("post.listCreator", url)
      later == { k \in (i + 1)..Len(rs) : rs[k].kind = "post.listCreator" }
      j == IF later = {} THEN Len(rs) + 1 ELSE CHOOSE k \in later : \A m \in later : k <= m
      infos == SelectSeq(SubSeq(rs, i + 1, j - 1), LAMBDA r : r.kind = "post.info")
  IN [k \in 1..Len(infos) |-> infos[k].target]

\* the remote of a second run is in the state it was in during the first
RerunIndexes == IF first_run = None THEN Indexes ELSE {AnsweredIndex}
\* the first run lists posts of every kind the catalog holds, a post at most
\* once in a page (a later page may list it again)
FirstRunPages ==
  { p \in SeqUpTo(PostIds \ {"V"}, MaxItems) : \A i, j \in 1..Len(p) : p[i] = p[j] => i = j }
RerunPages == IF first_run = None THEN FirstRunPages ELSE {AnsweredPage(list_creator_url)}

\* main.rs 16-52: main has returned Ok(()) and the program is started again,
\* with the same arguments: a new process, the disk as the first run left it
Rerun ==
  /\ pc = "done"
  /\ first_run = None
  /\ first_run' = Some([reqs |-> reqs, fs |-> fs, dirs |-> dirs])
  /\ pc' = "main"
  /\ resp_body' = << >>
  /\ list_creator_url' = ""
  /\ items' = << >>
  /\ item' = ""
  /\ info' = None
  /\ todo' = << >>
  /\ index_lines' = << >>
  /\ reqs' = << >>
  /\ warns' = << >>
  /\ listed' = << >>
  /\ fetched' = << >>
  /\ UNCHANGED <<libVars, dlVars, diskVars, inflight, err>>

NextRerun ==
  \/ Listing
  \/ PaginateCreatorOk(RerunIndexes)
  \/ ListCreatorOk(RerunPages)
  \/ InfoOk(CatalogPosts)
  \/ DownloadTo
  \/ PostSkeleton
  \/ PlainRenderers
  \/ ArticleHits
  \/ Rerun

SpecRerun == Init /\ [][NextRerun]_vars


\* ================================================================ claims
KindsOf(rs) == [i \in 1..Len(rs) |-> rs[i].kind]
TargetsOf(rs) == [i \in 1..Len(rs) |-> rs[i].target]
TargetsOfItems(ys) == [i \in 1..Len(ys) |-> ys[i].v]
IsInfoReq(r) == r.kind = "post.info"
IsPageReq(r) == r.kind = "post.listCreator"
IsGet(r) == r.kind = "GET"
InfoReqs == SelectSeq(reqs, IsInfoReq)
PageReqs == SelectSeq(reqs, IsPageReq)
IsPrefix(s, t) == Len(s) <= Len(t) /\ \A i \in 1..Len(s) : s[i] = t[i]
LastOf(s) == s[Len(s)]
Failure == Unwrap(err)

\* the posts whose processing is over: all the fetched ones, but the last while
\* main still holds it
Processed == IF info = None THEN 1..Len(fetched) ELSE 1..(Len(fetched) - 1)

\* ---- C1 ----------------------------------------------------------------
\* C1: abort on first failure. Once any operation of the run has failed (a page
\* or post fetch, a download, the index.html write, a set-mtime), the run has
\* ended with that failure as its error; the failing step sends no request, and
\* from then on no request is sent, no file or directory is written and no
\* warning, line or item is processed: the failed request is not retried.
FailureEndsRun ==
  err # None =>
    /\ pc = "failed"
    /\ inflight = None
    /\ Failure.op \in {"post.paginateCreator", "post.listCreator", "post.info"} =>
         LastOf(reqs) = Req(Failure.op, Failure.target)
    /\ (Failure.op = "download_to" /\ Failure.phase \in {"send", "status", "copy"}) =>
         LastOf(reqs) = Req("GET", Failure.target)
NothingAfterFailure ==
  /\ (err = None /\ err' # None) => reqs' = reqs
  /\ err # None => UNCHANGED <<reqs, fs, dirs, warns, err, index_lines, todo, items, resp_body>>
C1_AbortOnFirstFailure == [] FailureEndsRun /\ [][NothingAfterFailure]_vars

\* a download failed after an earlier post had been processed completely
C1_Witness ==
  /\ err # None
  /\ Failure.op = "download_to"
  /\ Len(fetched) >= 2

\* ---- C2 ----------------------------------------------------------------
\* C2: a post whose fetched body is None gets exactly one warning, naming it;
\* the step creates no directory and no file and sends no request (no download,
\* not even of the cover image), and main goes on with the rest of the items.
\* No post that was only ever fetched without a body has a directory or a file,
\* and a download runs only for a post with a body.
NoPermissionWarnings == SelectSeq(warns, LAMBDA w : w.what = "no permission to see post")
NoBodyStep ==
  (pc = "got_info" /\ Post.body = None) =>
    /\ pc' = "item_loop"
    /\ err' = None
    /\ warns' = Append(warns, [what |-> "no permission to see post", id |-> item])
    /\ UNCHANGED <<fs, dirs, reqs, inflight, items, resp_body>>
NoBodyLeavesNothing ==
  /\ Len(NoPermissionWarnings) = Cardinality({ i \in Processed : ~fetched[i].has_body })
  /\ \A i \in 1..Len(fetched) :
       (\A j \in 1..Len(fetched) :
          fetched[j].wire.id = fetched[i].wire.id => ~fetched[j].has_body)
       => /\ fetched[i].wire.id \notin dirs
          /\ \A p \in DOMAIN fs : p[1] # fetched[i].wire.id
  /\ (dl # None \/ (inflight # None /\ Unwrap(inflight).kind = "GET")) =>
       (info # None /\ IsSome(Post.body))
C2_NoBodyIsSkipped == [] NoBodyLeavesNothing /\ [][NoBodyStep]_vars

\* a post with a cover image and a null body was skipped, and the next item of
\* the listing was fetched and has a body
C2_Witness ==
  /\ Len(fetched) >= 2
  /\ fetched[1].wire.body = None
  /\ IsSome(fetched[1].wire.coverImageUrl)
  /\ ~fetched[1].has_body
  /\ fetched[2].has_body

\* ---- C5 ----------------------------------------------------------------
\* C5: posts are processed in the flattened listing order. The post.info
\* requests sent so far are, in order, the first items the pages have returned;
\* the page requests are the index's URLs in order; when a post.info request is
\* sent every post fetched before it has been processed to its end (index.html
\* written and stamped, or the warning given) and nothing of it is still
\* running; and a page is requested only when every item of the pages before it
\* has been processed.
PostDone(i) ==
  LET w == fetched[i].wire IN
    IF fetched[i].has_body
    THEN /\ Path(w.id, "index.html") \in DOMAIN fs
         /\ fs[Path(w.id, "index.html")].mtime # WallClock
         /\ fs[Path(w.id, "index.html")].data # << >>
    ELSE \E k \in 1..Len(warns) : warns[k].id = w.id
NothingRunning == info = None /\ dl = None /\ index_lines = << >> /\ todo = << >>
C5_ListingOrder ==
  /\ IsPrefix(TargetsOf(InfoReqs), listed)
  /\ TargetsOf(PageReqs) = [k \in 1..Len(PageReqs) |-> PageUrl(k)]
  /\ Len(fetched) <= Len(InfoReqs)
  /\ \A i \in 1..Len(fetched) : fetched[i].wire.id = listed[i]
  /\ pc = "await_info" =>
       /\ Len(InfoReqs) = Len(fetched) + 1
       /\ NothingRunning
       /\ \A i \in 1..Len(fetched) : PostDone(i)
  /\ pc = "await_listCreator" =>
       /\ TargetsOf(InfoReqs) = listed
       /\ Len(fetched) = Len(listed)
       /\ NothingRunning
       /\ \A i \in 1..Len(fetched) : PostDone(i)

\* two pages, the first of two different items, all three posts processed
C5_Witness ==
  /\ pc = "done"
  /\ KindsOf(SelectSeq(reqs, LAMBDA r : ~IsGet(r)))
       = <<"post.paginateCreator", "post.listCreator", "post.info", "post.info",
           "post.listCreator", "post.info">>
  /\ listed[1] # listed[2]
  /\ fetched[1].has_body /\ fetched[2].has_body

\* ---- C6 ----------------------------------------------------------------
\* C6: mtime consistency. Once a post with a body has been processed, each file
\* written for it (cover_image.jpeg if it has a cover URL, one file per image,
\* file or resolved article block, and index.html) exists
\* and has the post's updatedAt as its modification time, the seconds and the
\* nanoseconds both, whatever was written before or after it (until the listing
\* names the same post again and main downloads it anew).
ArticleAssets(wb) ==
  { wb.imageMap[b.imageId] :
      b \in { x \in Range(wb.blocks) : x.type = "image" /\ x.imageId \in DOMAIN wb.imageMap } }
  \cup
  { wb.fileMap[b.fileId] :
      b \in { x \in Range(wb.blocks) : x.type = "file" /\ x.fileId \in DOMAIN wb.fileMap } }
PostAssets(w) ==
  LET wb == Unwrap(w.body) IN
    CASE w.type = "image" -> Range(wb.images)
      [] w.type = "file" -> Range(wb.files)
      [] w.type = "article" -> ArticleAssets(wb)
      [] OTHER -> {}
FilesOf(w) ==
  {"index.html"}
  \cup (IF IsSome(w.coverImageUrl) THEN {"cover_image.jpeg"} ELSE {})
  \cup { a.id \o "." \o a.extension : a \in PostAssets(w) }
BeingProcessed(id) == info # None /\ Post.info.id = id
C6_MtimeIsUpdatedAt ==
  \A i \in Processed :
    (fetched[i].has_body /\ ~BeingProcessed(fetched[i].wire.id)) =>
      \A name \in FilesOf(fetched[i].wire) :
        /\ Path(fetched[i].wire.id, name) \in DOMAIN fs
        /\ fs[Path(fetched[i].wire.id, name)].mtime.seconds
             = fetched[i].wire.updatedDatetime.secs
        /\ fs[Path(fetched[i].wire.id, name)].mtime.nanos
             = fetched[i].wire.updatedDatetime.nsecs

\* the image post (a cover and two images, updatedAt with nanoseconds) and then
\* another post with files have been processed
C6_Witness ==
  /\ pc = "done"
  /\ \E i \in 1..Len(fetched) :
       /\ fetched[i].wire.id = "I"
       /\ fetched[i].wire.updatedDatetime.nsecs # 0
       /\ i < Len(fetched)
       /\ fetched[i + 1].has_body

\* ---- C9 ----------------------------------------------------------------
\* C9: when the post.info request for the item X is answered with a non-2xx
\* status, the run ends with the error "post.info returns error" naming X; that
\* step and the rest of the run create no directory, write no file and send no
\* request (no download for X): the last request of the run is X's post.info,
\* and X has a directory only if an earlier post of the same id was processed.
InfoStatusErrorStep ==
  (pc = "await_info" /\ err' # None /\ Unwrap(err').phase = "status") =>
    /\ pc' = "failed"
    /\ Unwrap(err').ctx = "post.info returns error"
    /\ Unwrap(err').target = item
    /\ LastOf(reqs) = Req("post.info", item)
    /\ UNCHANGED <<fs, dirs, reqs>>
InfoStatusErrorLeaves ==
  (err # None /\ Failure.op = "post.info" /\ Failure.phase = "status") =>
    /\ pc = "failed"
    /\ Failure.ctx = "post.info returns error"
    /\ LastOf(reqs) = Req("post.info", Failure.target)
    /\ Failure.target = listed[Len(fetched) + 1]
    /\ Failure.target \in dirs =>
         \E i \in 1..Len(fetched) :
           fetched[i].wire.id = Failure.target /\ fetched[i].has_body
    /\ \A i \in 1..Len(fetched) : PostDone(i)
C9_PostInfoStatusError ==
  /\ [] InfoStatusErrorLeaves
  /\ [][InfoStatusErrorStep]_vars
  /\ [][(err # None) => UNCHANGED <<fs, dirs, reqs>>]_vars

\* a post was processed, then the post.info of another item got a non-2xx answer
C9_Witness ==
  /\ err # None
  /\ Failure.op = "post.info"
  /\ Failure.phase = "status"
  /\ Len(fetched) >= 1
  /\ fetched[1].has_body
  /\ Failure.target # fetched[1].wire.id

\* ---- C3 ----------------------------------------------------------------
\* What index.html holds for one block of an article, by the block alone: the
\* block's line between <p> and </p>; for a block whose id is in no map the
\* two wrapper lines with nothing between them.
IsDangling(b, body) ==
  \/ b.kind = "Image" /\ b.id \notin DOMAIN body.image_map
  \/ b.kind = "File" /\ b.id \notin DOMAIN body.file_map
  \/ b.kind = "UrlEmbed" /\ b.id \notin DOMAIN body.url_embed_map
IsDownload(b, body) ==
  \/ b.kind = "Image" /\ b.id \in DOMAIN body.image_map
  \/ b.kind = "File" /\ b.id \in DOMAIN body.file_map
DownloadUrl(b, body) ==
  IF b.kind = "Image" THEN body.image_map[b.id].original_url ELSE body.file_map[b.id].url
DownloadName(b, body) ==
  IF b.kind = "Image"
  THEN body.image_map[b.id].id \o "." \o body.image_map[b.id].extension
  ELSE body.file_map[b.id].id \o "." \o body.file_map[b.id].extension
LinesOfBlock(b, body) ==
  IF IsDangling(b, body) THEN << <<"<p>">>, <<"</p>">> >>
  ELSE << <<"<p>">>,
          CASE b.kind = "P" -> <<"{}", b.text>>
            [] b.kind = "Image" ->
                 <<"<img alt='{}' src='./{}.{}' style='width: 100%;'>",
                   body.image_map[b.id].original_url, body.image_map[b.id].id,
                   body.image_map[b.id].extension>>
            [] b.kind = "File" ->
                 <<"<a href='./{}.{}'>{}</a>", body.file_map[b.id].id,
                   body.file_map[b.id].extension, body.file_map[b.id].name>>
            [] b.kind = "UrlEmbed" ->
                 IF body.url_embed_map[b.id].kind = "Default"
                 THEN <<"<a href='{}'>{}</a>", body.url_embed_map[b.id].url,
                        body.url_embed_map[b.id].url>>
                 ELSE <<"{}", body.url_embed_map[b.id].html>>,
          <<"</p>">> >>
LinesOfBlocks(bs, body) == Flatten([i \in 1..Len(bs) |-> LinesOfBlock(bs[i], body)])
ArticleHead ==
  << TitleLine(Post.info) >>
  \o (IF IsSome(Post.info.cover_image_url)
      THEN << <<"<p><img alt='{}' src='./cover_image.jpeg'></p>", Unwrap(Post.info.cover_image_url)>> >>
      ELSE << >>)
InArticle == info # None /\ IsSome(Post.body) /\ PostBody.variant = "Article"
AtDanglingBlock == InArticle /\ pc = "walk" /\ todo # << >> /\ IsDangling(Head(todo), PostBody)

\* C3 as stated: a block whose id is in no map appends nothing at all to the
\* index lines.
C3_DanglingAppendsNothing == [][AtDanglingBlock => index_lines' = index_lines]_vars

\* C3, amended: for a block whose id is absent from its map the step sends no
\* request and touches no file, gives one warning naming the id, appends only
\* the block's empty wrapper pair (<p>, </p>) and no line between them, and goes
\* on with the next block; the finished document is, block by block, what each
\* block yields on its own.
DanglingStep ==
  AtDanglingBlock =>
    /\ UNCHANGED <<reqs, inflight, fs, dirs, dl, err, pc>>
    /\ Len(warns') = Len(warns) + 1
    /\ LastOf(warns').id = Head(todo).id
    /\ index_lines' = index_lines \o << <<"<p>">>, <<"</p>">> >>
    /\ todo' = Tail(todo)
DocumentIsBlockwise ==
  (InArticle /\ pc = "write_index") =>
    index_lines = ArticleHead \o LinesOfBlocks(PostBody.blocks, PostBody)
C3_DanglingIsSkipped == [] DocumentIsBlockwise /\ [][DanglingStep]_vars

\* an article whose first block is dangling and whose second is an image that
\* is in the map, rendered to its end
C3_Witness ==
  /\ InArticle
  /\ pc = "write_index"
  /\ Len(PostBody.blocks) >= 2
  /\ IsDangling(PostBody.blocks[1], PostBody)
  /\ IsDownload(PostBody.blocks[2], PostBody)
  /\ Len(warns) = 1

\* ---- C4 ----------------------------------------------------------------
\* C4: while an article is rendered, with k of its blocks behind it, the index
\* lines are those of blocks 1..k in order (plus the opening <p> of block k+1
\* while its download runs), the downloads requested are those of blocks 1..k
\* in order (plus that of block k+1 while it runs), and every download of
\* blocks 1..k is complete on disk, all bytes copied and the mtime stamped: no
\* line and no download of a later block comes before an earlier download ends.
BlocksDone == Len(PostBody.blocks) - Len(todo)
ArticleReturns == {"article_image_done", "article_file_done"}
InBlockDownload ==
  \/ pc \in ArticleReturns
  \/ dl # None /\ Download.ret \in ArticleReturns
WalkingArticle ==
  /\ InArticle
  /\ err = None
  /\ \/ pc \in {"walk", "write_index", "stamp_index"}
     \/ InBlockDownload
DoneBlocks == SubSeq(PostBody.blocks, 1, BlocksDone)
DownloadsOf(bs, body) ==
  LET ds == SelectSeq(bs, LAMBDA b : IsDownload(b, body)) IN
    [i \in 1..Len(ds) |-> DownloadUrl(ds[i], body)]
\* the GET requests of the body: those after the post.info, without the cover's
BodyGets ==
  LET gets == TargetsOf(SelectSeq(reqs, IsGet)) IN
    IF IsSome(Post.info.cover_image_url) THEN Tail(gets) ELSE gets
CurrentRequested == InBlockDownload /\ pc # "dl_create"
C4_BlockOrder ==
  WalkingArticle =>
    /\ index_lines = ArticleHead \o LinesOfBlocks(DoneBlocks, PostBody)
                       \o (IF InBlockDownload THEN << <<"<p>">> >> ELSE << >>)
    /\ BodyGets = DownloadsOf(DoneBlocks, PostBody)
                    \o (IF CurrentRequested
                        THEN << DownloadUrl(Head(todo), PostBody) >> ELSE << >>)
    /\ \A i \in 1..BlocksDone :
         LET b == PostBody.blocks[i] IN
           (IsDownload(b, PostBody)
            /\ ~(InBlockDownload /\ DownloadName(Head(todo), PostBody) = DownloadName(b, PostBody)))
           => /\ Path(DestDir, DownloadName(b, PostBody)) \in DOMAIN fs
              /\ fs[Path(DestDir, DownloadName(b, PostBody))].data
                   = Chunks(DownloadUrl(b, PostBody))
              /\ fs[Path(DestDir, DownloadName(b, PostBody))].mtime # WallClock

\* an article of an image block and then a file block, both in their maps,
\* rendered to its end
C4_Witness ==
  /\ InArticle
  /\ pc = "write_index"
  /\ Len(PostBody.blocks) = 2
  /\ PostBody.blocks[1].kind = "Image" /\ IsDownload(PostBody.blocks[1], PostBody)
  /\ PostBody.blocks[2].kind = "File" /\ IsDownload(PostBody.blocks[2], PostBody)

\* ---- C7 ----------------------------------------------------------------
KnownBodyTags == {"image", "article", "file", "text"}

\* C7: a fetched post whose body type tag is none of image, article, file, text
\* does not fail the fetch, and its body is not None (it is the Unknown
\* variant); its id, title, updatedAt and creatorId are there.
C7_NewBodyTagIsUnknown ==
  \A i \in 1..Len(fetched) :
    fetched[i].wire.type \notin KnownBodyTags => fetched[i].has_body

\* the same of get_post in src/lib.rs, whose PostBody has the catch-all variant
C7_GetPostNewBodyTagIsUnknown ==
  (got # None /\ IsSome(Unwrap(got).post) /\ LastOf(fetched).wire.type \notin KnownBodyTags) =>
    /\ Unwrap(got).error = None
    /\ IsSome(Unwrap(Unwrap(got).post).body)
    /\ Unwrap(Unwrap(Unwrap(got).post).body).variant = "Unknown"
    /\ Unwrap(Unwrap(got).post).info = PostInfo(LastOf(fetched).wire)

\* ---- C8 ----------------------------------------------------------------
\* C8: an article whose block list holds a block of an unrecognized type, or
\* whose URL-embed map holds an entry of an unrecognized type, still parses as
\* an Article body (and so is rendered).
C8_NewBlockTagKeepsArticle ==
  \A i \in 1..Len(fetched) :
    (fetched[i].wire.type = "article" /\ IsSome(fetched[i].wire.body)) => fetched[i].has_body

\* ---- C10 ---------------------------------------------------------------
\* C10: lazy pagination. The page requests of the stream are the index's URLs
\* in order, each once; the items handed to the consumer are, in order, the
\* first of the items the pages returned; a page request is sent only inside a
\* poll of the consumer and only when every item of the pages before it has
\* been handed over; and once the consumer has dropped the stream no request is
\* sent.
OkItems == TargetsOfItems(SelectSeq(yielded, LAMBDA y : y.tag = "Ok"))
PageRequestStep ==
  (Len(reqs') > Len(reqs) /\ LastOf(reqs').kind = "post.listCreator") =>
    /\ consumer = "polling"
    /\ OkItems = listed
    /\ items = << >>
    /\ LastOf(reqs').target = PageUrl(Len(PageReqs) + 1)
LazyPages ==
  /\ TargetsOf(PageReqs) = [k \in 1..Len(PageReqs) |-> PageUrl(k)]
  /\ IsPrefix(OkItems, listed)
  /\ pc = "stream_await" => OkItems = listed
  /\ Len(listed) = Len(OkItems) + Len(items)
C10_LazyPagination ==
  /\ [] LazyPages
  /\ [][PageRequestStep]_vars
  /\ [][consumer = "dropped" => reqs' = reqs]_vars

\* the second page is being requested after the two items of the first page
\* were handed to the consumer
C10_Witness ==
  /\ pc = "stream_await"
  /\ Len(PageReqs) = 2
  /\ Len(OkItems) = 2
  /\ consumer = "polling"

\* the consumer dropped the stream with an item of the page and a page URL left
C10_WitnessDropped ==
  /\ consumer = "dropped"
  /\ items # << >>
  /\ resp_body # << >>

\* ---- C11 ---------------------------------------------------------------
\* the kind the taxonomy gives each phase of a download: RequestFailed is
\* HttpRequestError, StatusError is HttpStatusError, ReadFailed is
\* HttpReadError, FilesystemError is IoError
TaxonomyKind(ph) ==
  CASE ph = "send" -> "HttpRequestError"
    [] ph = "status" -> "HttpStatusError"
    [] ph = "read" -> "HttpReadError"
    [] ph \in {"create", "write", "set_mtime"} -> "IoError"

\* C11: a download that fails returns the error kind of the phase that failed:
\* HttpRequestError for the send, HttpStatusError for a non-2xx response,
\* HttpReadError for a failure while the body is streamed, and IoError only
\* for a failure of File::create, of a write or of set_file_mtime.
C11_KindIsThePhase ==
  (err # None /\ Failure.op = "download_to") => Failure.ctx = TaxonomyKind(Failure.phase)

\* ---- C12 ---------------------------------------------------------------
HandleReleasedAtStamp ==
  pc = "dl_stamp" =>
    /\ file = "closed"
    /\ stream = << >>
    /\ fs[Download.path].data = Chunks(Download.url)
WritesOfDownload ==
  (dl # None /\ fs' # fs) =>
    \/ pc = "dl_create" /\ file' = "open"
    \/ pc = "dl_copy" /\ file = "open" /\ file' = "open"
    \/ /\ pc = "dl_stamp"
       /\ file = "closed"
       /\ fs'[Download.path].data = fs[Download.path].data
       /\ fs'[Download.path].mtime = FileTimeOf(Download.mtime)
       /\ dl' = None

\* C12: in every download, when the modification time is set every byte of
\* the stream has been written and the file handle has been dropped; the file
\* is written only through the open handle, and the stamp, which leaves the
\* bytes as they are, is the last step of the call.
C12_ReleasedBeforeStamp == [] HandleReleasedAtStamp /\ [][WritesOfDownload]_vars

\* a download has returned: its file holds the whole body and has the mtime
C12_Witness ==
  /\ dl = None
  /\ err = None
  /\ \E p \in DOMAIN fs :
       /\ p[2] # "index.html"
       /\ Len(fs[p].data) = 2
       /\ fs[p].mtime # WallClock

\* ---- C13 ---------------------------------------------------------------
SecondRun == first_run # None
SameRequestsSoFar == SecondRun => IsPrefix(reqs, FirstRun.reqs)
SameOutcome ==
  (SecondRun /\ pc = "done") =>
    /\ reqs = FirstRun.reqs
    /\ fs = FirstRun.fs
    /\ dirs = FirstRun.dirs

\* C13: a second run of main against the same remote and the same destination
\* sends, request for request, what the first run sent (a file that is already
\* there suppresses no download), and when it returns the disk holds the files,
\* contents and modification times the first run left.
C13_RerunDownloadsAgain == SameRequestsSoFar /\ SameOutcome

\* the second run has returned after downloading again what was on disk
C13_Witness ==
  /\ SecondRun
  /\ pc = "done"
  /\ \E i \in 1..Len(reqs) : reqs[i].kind = "GET"
  /\ \E p \in DOMAIN fs : p[2] = "index.html"

\* ---- C14 ---------------------------------------------------------------
AllStamped == \A p \in DOMAIN fs : fs[p].mtime # WallClock
RequestStep ==
  Len(reqs') > Len(reqs) =>
    /\ Len(reqs') = Len(reqs) + 1
    /\ inflight = None
    /\ inflight' = Some(LastOf(reqs'))
    /\ file # "open"
    /\ stream = << >>
    /\ dl # None => pc = "dl_create"
    /\ AllStamped
InFlightIsTheLast ==
  inflight # None =>
    /\ Unwrap(inflight) = LastOf(reqs)
    /\ pc \in {"await_paginateCreator", "await_listCreator", "await_info", "dl_await", "dl_copy"}

\* C14: at most one HTTP request is in flight, the one sent last; a request is
\* sent only when no request is in flight, no response body is left to copy,
\* no file handle is open and every file written so far has been stamped.
C14_OneRequestAtATime == [] InFlightIsTheLast /\ [][RequestStep]_vars

\* an asset is being requested after an earlier download was written and stamped
C14_Witness ==
  /\ inflight # None
  /\ Unwrap(inflight).kind = "GET"
  /\ \E p \in DOMAIN fs : Len(fs[p].data) = 2 /\ fs[p].mtime # WallClock

\* ---- C15 ---------------------------------------------------------------
\* the answer being processed, and the requests sent since it arrived
CurrentWire == LastOf(fetched).wire
LastInfoAt == CHOOSE i \in 1..Len(reqs) :
                /\ reqs[i].kind = "post.info"
                /\ \A j \in (i + 1)..Len(reqs) : reqs[j].kind # "post.info"
PostRequests == SubSeq(reqs, LastInfoAt + 1, Len(reqs))
CoverPath == Path(DestDir, "cover_image.jpeg")

TitleFirst ==
  /\ (info # None /\ index_lines # << >>) => Head(index_lines) = TitleLine(Post.info)
  /\ \A p \in DOMAIN fs :
       (p[2] = "index.html" /\ fs[p].data # << >>) =>
         Head(fs[p].data) = TitleLine([creator_id |-> CreatorId, id |-> p[1], title |-> "title"])
CoverFirst ==
  (info # None /\ IsSome(Post.body)) =>
    IF IsSome(Post.info.cover_image_url)
    THEN /\ PostRequests # << >> =>
              Head(PostRequests) = Req("GET", Unwrap(Post.info.cover_image_url))
         /\ (dl # None /\ Len(PostRequests) <= 1) =>
              (Download.path = CoverPath <=> Download.url = Unwrap(Post.info.cover_image_url))
         /\ (dl # None /\ PostRequests = << >>) => Download.path = CoverPath
    ELSE dl # None => Download.path # CoverPath
IndexStep ==
  /\ info # None
  /\ \/ IndexPath \notin DOMAIN fs /\ IndexPath \in DOMAIN fs'
     \/ IndexPath \in DOMAIN fs /\ fs'[IndexPath] # fs[IndexPath]
IndexAfterDownloads ==
  IndexStep =>
    /\ dl = None
    /\ inflight = None
    /\ todo = << >>
    /\ \A name \in FilesOf(CurrentWire) \ {"index.html"} :
         /\ Path(DestDir, name) \in DOMAIN fs
         /\ Len(fs[Path(DestDir, name)].data) = 2
         /\ fs[Path(DestDir, name)].mtime = FileTimeOf(Post.info.updated_datetime)
StampIsLast ==
  /\ fs' # fs => info # None
  /\ (pc = "stamp_index" /\ fs' # fs) =>
       /\ fs' = FsWrite(IndexPath, fs[IndexPath].data, FileTimeOf(Post.info.updated_datetime))
       /\ info' = None
  /\ (pc = "write_index" /\ pc' # "failed") => pc' = "stamp_index"
  /\ (info # None /\ info' = None /\ IsSome(Post.body)) => pc = "stamp_index"

\* C15: in every renderer the first line is the title line; if the post has a
\* cover URL its download, to cover_image.jpeg, is the first download of the
\* post; index.html is written only when every file of the post has been
\* downloaded whole and stamped; and the stamp of index.html with updatedAt is
\* the step that ends the post.
C15_RendererSkeleton ==
  /\ [] TitleFirst
  /\ [] CoverFirst
  /\ [][IndexAfterDownloads]_vars
  /\ [][StampIsLast]_vars

\* index.html of the image post (a cover, two images) has been stamped
C15_Witness ==
  /\ info = None
  /\ Path("I", "index.html") \in DOMAIN fs
  /\ fs[Path("I", "index.html")].mtime = FileTimeOf(Dt2)
  /\ Path("F", "index.html") \in DOMAIN fs
  /\ fs[Path("F", "index.html")].mtime = FileTimeOf(Dt3)

\* ---- C16 ---------------------------------------------------------------
Touched == { p \in DOMAIN fs' : p \notin DOMAIN fs \/ fs'[p] # fs[p] }
FrameStep ==
  /\ dirs' # dirs => (info # None /\ dirs' = dirs \cup {Post.info.id})
  /\ \A p \in Touched :
       /\ info # None
       /\ p[1] = Post.info.id
       /\ p[2] \in FilesOf(CurrentWire)

\* C16: a step taken while the post with id P is processed creates no directory
\* but P, and creates, writes or stamps no file but cover_image.jpeg (if the
\* post has a cover URL), {id}.{extension} of an asset of the post and
\* index.html, each of them in the directory P; outside the processing of a
\* post nothing on disk changes.
C16_FilesystemFrame == [][FrameStep]_vars

\* ---- C17 ---------------------------------------------------------------
InListPost == info # None /\ IsSome(Post.body) /\ PostBody.variant \in {"Image", "File"}
\* the declared list of the answer, and the lines of one asset
Declared ==
  IF CurrentWire.type = "image"
  THEN Unwrap(CurrentWire.body).images ELSE Unwrap(CurrentWire.body).files
FragmentOf(a) ==
  IF CurrentWire.type = "image"
  THEN << <<"<p><img alt='{}' src='./{}.{}' style='width: 100%;'></p>",
            a.original_url, a.id, a.extension>> >>
  ELSE << <<"<p>">>, <<"<a href='./{}.{}'>{}</a>", a.id, a.extension, a.name>>, <<"</p>">> >>
UrlOf(a) == IF CurrentWire.type = "image" THEN a.original_url ELSE a.url
ListHead ==
  << TitleLine(Post.info) >>
  \o (IF IsSome(Post.info.cover_image_url)
      THEN << <<"<p>">>,
              <<"<img alt='{}' src='./cover_image.jpeg'>", Unwrap(Post.info.cover_image_url)>>,
              <<"</p>">> >>
      ELSE << >>)
ListReturns == {"image_done", "file_done"}
InAssetDownload ==
  \/ pc \in ListReturns
  \/ dl # None /\ Download.ret \in ListReturns
WalkingList ==
  /\ InListPost
  /\ err = None
  /\ \/ pc \in {"walk", "write_index", "stamp_index"}
     \/ InAssetDownload
AssetsDone == Len(Declared) - Len(todo)
\* the requests of the list: those of the post, without the cover's
ListGets ==
  LET gets == TargetsOf(PostRequests) IN
    IF IsSome(Post.info.cover_image_url) THEN Tail(gets) ELSE gets
TextIsIn == pc \in {"write_index", "stamp_index"}

\* C17: while an image post or a file post is rendered, with k assets of the
\* declared list behind it, the index lines are the head and the fragments of
\* assets 1..k in order, the downloads requested are those of assets 1..k in
\* order (plus that of asset k+1 while it runs, which goes to {id}.{extension}),
\* each of them complete on disk; the line of the body text is appended after
\* the last asset's fragment, and it is the last line of index.html, also when
\* the list is empty.
C17_ListOrder ==
  WalkingList =>
    /\ index_lines = ListHead
         \o Flatten([i \in 1..AssetsDone |-> FragmentOf(Declared[i])])
         \o (IF TextIsIn THEN << <<"<p>{}</p>", Unwrap(CurrentWire.body).text>> >> ELSE << >>)
    /\ TextIsIn => AssetsDone = Len(Declared)
    /\ ListGets = [i \in 1..AssetsDone |-> UrlOf(Declared[i])]
         \o (IF InAssetDownload /\ pc # "dl_create"
             THEN << UrlOf(Declared[AssetsDone + 1]) >> ELSE << >>)
    /\ (InAssetDownload /\ dl # None) =>
         LET a == Declared[AssetsDone + 1] IN
           Download.path = <<CurrentWire.id, a.id \o "." \o a.extension>>
    /\ \A i \in 1..AssetsDone :
         LET a == Declared[i]
             path == <<CurrentWire.id, a.id \o "." \o a.extension>> IN
           ~(InAssetDownload /\ dl # None /\ Download.path = path) =>
             /\ path \in DOMAIN fs
             /\ fs[path].data = Chunks(UrlOf(a))
             /\ fs[path].mtime # WallClock
    /\ pc = "stamp_index" => fs[IndexPath].data = index_lines

\* an image post of two images has been rendered, and so has a post whose
\* list is empty
C17_Witness ==
  /\ WalkingList
  /\ pc = "stamp_index"
  /\ Len(Declared) = 2
  /\ Declared[1] # Declared[2]
C17_WitnessEmptyList ==
  /\ WalkingList
  /\ pc = "stamp_index"
  /\ Declared = << >>
  /\ IsSome(Post.info.cover_image_url)

\* ---- C18 ---------------------------------------------------------------
WireUrlEmbeds == Unwrap(CurrentWire.body).urlEmbedMap
AtUrlEmbedHit ==
  /\ InArticle
  /\ pc = "walk"
  /\ todo # << >>
  /\ Head(todo).kind = "UrlEmbed"
  /\ Head(todo).id \in DOMAIN WireUrlEmbeds
\* the line of an embed: of a default embed an anchor of its url, of any other
\* its html, whether its type is html or html.card
InlineOf(e) ==
  IF e.type = "default" THEN <<"<a href='{}'>{}</a>", e.url, e.url>> ELSE <<"{}", e.html>>
UrlEmbedHitStep ==
  AtUrlEmbedHit =>
    /\ reqs' = reqs
    /\ inflight' = inflight
    /\ fs' = fs
    /\ dirs' = dirs
    /\ dl' = None
    /\ index_lines' = index_lines
         \o << <<"<p>">>, InlineOf(WireUrlEmbeds[Head(todo).id]), <<"</p>">> >>
    /\ todo' = Tail(todo)

\* C18: the step of a URL-embed block whose id is in the URL-embed map sends
\* no request and changes nothing on disk; it appends the paragraph of the
\* embed, an anchor of the url for a default embed and the html itself for an
\* html and for an html.card embed alike.
C18_UrlEmbedIsInline == [][UrlEmbedHitStep]_vars

\* an html embed and an html.card embed of the same html have been rendered,
\* to the same lines, without a request
C18_Witness ==
  /\ InArticle
  /\ pc = "write_index"
  /\ Len(PostBody.blocks) = 2
  /\ PostBody.blocks[1] = Block("UrlEmbed", "", "e2")
  /\ PostBody.blocks[2] = Block("UrlEmbed", "", "e3")
  /\ WireUrlEmbeds["e2"].html = WireUrlEmbeds["e3"].html
  /\ SubSeq(index_lines, Len(index_lines) - 5, Len(index_lines) - 3)
       = SubSeq(index_lines, Len(index_lines) - 2, Len(index_lines))
  /\ PostRequests = << >>

\* ---- C19 ---------------------------------------------------------------
DocumentedBlockTags == {"p", "header", "image", "file", "embed", "url_embed"}
HasHeaderOrEmbed(w) ==
  /\ w.type = "article"
  /\ IsSome(w.body)
  /\ \E b \in Range(Unwrap(w.body).blocks) : b.type \in {"header", "embed"}
  /\ \A b \in Range(Unwrap(w.body).blocks) : b.type \in DocumentedBlockTags
  /\ \A k \in DOMAIN Unwrap(w.body).urlEmbedMap :
       Unwrap(w.body).urlEmbedMap[k].type \in {"default", "html", "html.card"}

\* C19: an article with a header block or an embed block, all of whose blocks
\* and URL embeds are of the documented kinds, is rendered: once main is
\* through with it, it was not warned about as a post without a body and its
\* index.html is on disk.
C19_HeaderAndEmbedAreRendered ==
  \A i \in Processed :
    HasHeaderOrEmbed(fetched[i].wire) =>
      /\ fetched[i].has_body
      /\ \A j \in 1..Len(warns) : warns[j].what # "no permission to see post"
      /\ Path(fetched[i].wire.id, "index.html") \in DOMAIN fs

\* ---- C20 ---------------------------------------------------------------
\* the download failed at the send, at the status, or while chunks of the body
\* were still to come
FailedAfterCreate ==
  /\ pc = "failed"
  /\ Failure.op = "download_to"
  /\ \/ Failure.phase \in {"send", "status"}
     \/ Failure.phase = "copy" /\ stream # << >>

\* C20: after a download has failed at the send, at the status or in the
\* middle of the body, its path is a file that holds nothing (send, status) or
\* the chunks copied before the failure and not the whole body, whatever the
\* path held before; its modification time is not the mtime asked for, and the
\* handle is closed.
C20_FailedDownloadLeavesPartialFile ==
  FailedAfterCreate =>
    /\ Download.path \in DOMAIN fs
    /\ Len(fs[Download.path].data) < Len(Chunks(Download.url))
    /\ fs[Download.path].data =
         IF Failure.phase = "copy"
         THEN SubSeq(Chunks(Download.url), 1, Len(Chunks(Download.url)) - Len(stream))
         ELSE << >>
    /\ fs[Download.path].mtime = WallClock
    /\ fs[Download.path].mtime # FileTimeOf(Download.mtime)
    /\ file = "closed"

\* a post is downloaded a second time and the download of an asset whose file
\* was whole and stamped fails after the first chunk
C20_Witness ==
  /\ FailedAfterCreate
  /\ Failure.phase = "copy"
  /\ Len(fs[Download.path].data) = 1
  /\ Download.path[2] # "cover_image.jpeg"
  /\ \E i \in 1..(Len(fetched) - 1) :
       fetched[i].wire.id = Post.info.id /\ fetched[i].has_body

\* ---- C21 ---------------------------------------------------------------
\* what a post downloads: each URL with the name of its file
UrlOfAsset(a) == IF "original_url" \in DOMAIN a THEN a.original_url ELSE a.url
Downloads(w) ==
  (IF IsSome(w.coverImageUrl) THEN {<<Unwrap(w.coverImageUrl), "cover_image.jpeg">>} ELSE {})
  \cup { <<UrlOfAsset(a), a.id \o "." \o a.extension>> : a \in PostAssets(w) }
\* the file of a download of the current post is whole and stamped
Kept(url) ==
  \E d \in Downloads(CurrentWire) :
    /\ d[1] = url
    /\ Path(DestDir, d[2]) \in DOMAIN fs
    /\ fs[Path(DestDir, d[2])].data = Chunks(url)
    /\ fs[Path(DestDir, d[2])].mtime = FileTimeOf(Post.info.updated_datetime)
\* the listing has named the current post once, in the first run of the program
ListedOnce ==
  /\ first_run = None
  /\ Cardinality({ i \in 1..Len(fetched) : fetched[i].wire.id = DestDir }) = 1
StoppedOnDownload ==
  /\ pc = "failed"
  /\ info # None
  /\ Failure.op = "download_to"
\* the requests of the current post whose download returned Ok: all of them
\* but that of the failed download (which sent none if the create failed)
ReturnedOk ==
  IF Failure.phase = "create" THEN 1..Len(PostRequests) ELSE 1..(Len(PostRequests) - 1)

\* C21 as stated: when main has returned (Ok or Err) after fetching one post
\* with a body, whose directory was created, index.html is on disk if and only
\* if no download of the post failed.
C21_IndexIffDownloadsSucceeded ==
  (pc \in {"done", "failed"} /\ Len(fetched) = 1 /\ fetched[1].has_body
   /\ fetched[1].wire.id \in dirs) =>
    (Path(fetched[1].wire.id, "index.html") \in DOMAIN fs
       <=> ~(err # None /\ Failure.op = "download_to"))

NoRollback ==
  StoppedOnDownload =>
    /\ IsSome(Post.body)
    /\ DestDir \in dirs
    /\ \A k \in ReturnedOk :
         \/ Kept(PostRequests[k].target)
         \/ \E d \in Downloads(CurrentWire) :
              d[1] = PostRequests[k].target /\ Path(DestDir, d[2]) = Download.path
    /\ ListedOnce => IndexPath \notin DOMAIN fs
IndexOnlyAfterAll ==
  IndexStep =>
    /\ err = None
    /\ pc \in {"write_index", "stamp_index"}
    /\ dl = None
    /\ \A k \in 1..Len(PostRequests) : Kept(PostRequests[k].target)
IndexUnlessFailed ==
  /\ pc = "done" =>
       \A i \in 1..Len(fetched) :
         fetched[i].has_body => Path(fetched[i].wire.id, "index.html") \in DOMAIN fs
  /\ (pc = "failed" /\ info # None /\ ListedOnce /\ IndexPath \notin DOMAIN fs) =>
       \/ Post.body = None
       \/ Failure.op \in {"create_dir_all", "download_to"}
       \/ Failure.op = "index.html" /\ Failure.phase = "write"

\* C21: there is no rollback. When a post stops on a failed download its
\* directory is there, every download of it that returned Ok has left its file
\* whole and stamped with updatedAt (but a file at the very path of the failed
\* download), and index.html of a post listed once is not there; a step writes
\* index.html only when every download of the post has returned Ok; and
\* index.html of a post with a body is there once main returns Ok, and missing
\* after a failure only if the directory, a download or the write of index.html
\* itself failed.
C21_NoRollback == [] NoRollback /\ [] IndexUnlessFailed /\ [][IndexOnlyAfterAll]_vars

\* the image post stopped at its second image: the cover and the first image
\* are whole and stamped, index.html is not there
C21_Witness ==
  /\ StoppedOnDownload
  /\ ListedOnce
  /\ DestDir = "I"
  /\ Download.url = Img2.original_url
  /\ Failure.phase \in {"send", "status", "copy"}
  /\ Kept(CoverUrl)
  /\ Kept(Img1.original_url)
  /\ IndexPath \notin DOMAIN fs

\* ---- C22 ---------------------------------------------------------------
ErrAt == { i \in 1..Len(yielded) : yielded[i].tag = "Err" }
PageFailed == err # None /\ Failure.op = "post.listCreator"
\* the stream has yielded an Err exactly when a page request has failed; the
\* Err is the kind of the failure and comes after the Ok items, which are the
\* items of the pages before; after it the stream has ended and yields None
ErrEndsStream ==
  /\ Cardinality(ErrAt) <= 1
  /\ (ErrAt # {}) <=> PageFailed
  /\ PageFailed =>
       /\ pc = "stream_done"
       /\ inflight = None
       /\ OkItems = listed
       /\ LastOf(PageReqs) = Req("post.listCreator", Failure.target)
       /\ Failure.target = PageUrl(Len(PageReqs))
       /\ \A i \in ErrAt :
            /\ yielded[i] = ItemErr(Failure.ctx)
            /\ \A j \in 1..Len(yielded) :
                 /\ j < i => yielded[j].tag = "Ok"
                 /\ j > i => yielded[j] = ItemNone
NoPageAfterErr ==
  PageFailed =>
    /\ UNCHANGED <<reqs, inflight, err, pc, listed, resp_body, items>>
    /\ yielded' # yielded => yielded' = Append(yielded, ItemNone)

\* C22: the pagination stream ends at its first error. When the request of
\* page k fails (send, status or read), the stream has yielded the items of
\* the pages before k, all Ok, then one Err of the failure's kind, and has
\* ended; from then on no request is sent, page URLs that are left stay
\* unrequested, and a poll yields None.
C22_StreamEndsAtFirstError == [] ErrEndsStream /\ [][NoPageAfterErr]_vars

\* the first of two pages failed; the consumer polled again and got None, and
\* the second page URL was never requested
C22_Witness ==
  /\ PageFailed
  /\ Len(PageReqs) = 1
  /\ resp_body # << >>
  /\ Len(yielded) = 2
  /\ yielded[1].tag = "Err"
  /\ yielded[2] = ItemNone

\* the second page failed after the two items of the first were yielded
C22_WitnessLaterPage ==
  /\ PageFailed
  /\ Len(PageReqs) = 2
  /\ Len(OkItems) = 2
  /\ LastYielded = ItemNone

\* ---- C23 ---------------------------------------------------------------
IsIndexReq(r) == r.kind = "post.paginateCreator"
IndexReqs == SelectSeq(reqs, IsIndexReq)
IndexFailed == err # None /\ Failure.op = "post.paginateCreator"
\* the index request is the first request of the run and the only one of its
\* kind; a run that is past its start has sent it
IndexFirstAndOnce ==
  /\ reqs # << >> => Head(reqs) = Req("post.paginateCreator", CreatorId)
  /\ Len(IndexReqs) <= 1
  /\ pc \notin {"main", "client"} => Len(IndexReqs) = 1
\* a failed index request is the only request; nothing was listed, fetched,
\* yielded or written
IndexFailureIsAlone ==
  IndexFailed =>
    /\ pc \in {"failed", "client_failed"}
    /\ reqs = << Req("post.paginateCreator", CreatorId) >>
    /\ inflight = None
    /\ listed = << >> /\ fetched = << >> /\ yielded = << >> /\ warns = << >>
    /\ fs = EmptyMap /\ dirs = {}
\* a run whose pages held no item at all has returned Ok after the index
\* request and one request per page URL, and has fetched and written nothing;
\* in any run every post.info request is for an item some page has listed
NothingListed ==
  /\ Len(InfoReqs) <= Len(listed)
  /\ (pc = "done" /\ listed = << >> /\ first_run = None) =>
       /\ err = None
       /\ resp_body = << >>
       /\ reqs = << Req("post.paginateCreator", CreatorId) >>
                   \o [k \in 1..Len(PageReqs) |-> Req("post.listCreator", PageUrl(k))]
       /\ fetched = << >> /\ warns = << >>
       /\ fs = EmptyMap /\ dirs = {}
  /\ (pc = "stream_done" /\ listed = << >> /\ err = None) =>
       /\ InfoReqs = << >>
       /\ \A i \in 1..Len(yielded) : yielded[i] = ItemNone
\* at the end of a page, of no item or of some, main goes to the next page URL
\* and nothing else changes
EmptyPageStep ==
  (pc = "item_loop" /\ items = << >>) =>
    /\ pc' = "page_loop"
    /\ UNCHANGED <<reqs, inflight, fs, dirs, fetched, warns, listed, err, resp_body>>
IndexFailureStep ==
  /\ (err = None /\ err' # None /\ Unwrap(err').op = "post.paginateCreator") => reqs' = reqs
  /\ IndexFailed => UNCHANGED <<reqs, inflight, fs, dirs, fetched, listed, yielded, err, pc>>

\* C23: the index request is sent once, first, before any page or post
\* request. If it fails, the run returns the error and no other request is
\* ever sent. If the index is empty, or its pages hold no item, the run
\* returns Ok having sent the index request and one request per page URL,
\* with no post fetched and nothing written; a page without items is followed
\* by the next page URL with nothing fetched or written in between.
C23_IndexOnceAndFirst ==
  /\ [] IndexFirstAndOnce
  /\ [] IndexFailureIsAlone
  /\ [] NothingListed
  /\ [][EmptyPageStep]_vars
  /\ [][IndexFailureStep]_vars

\* the index held two page URLs, both pages were empty, and main returned Ok
C23_Witness ==
  /\ pc = "done"
  /\ err = None
  /\ Len(PageReqs) = 2
  /\ Len(reqs) = 3
  /\ listed = << >>
  /\ fs = EmptyMap

\* the index was empty: main returned Ok after the one request
C23_WitnessEmptyIndex == pc = "done" /\ Len(reqs) = 1 /\ err = None

\* the index request failed
C23_WitnessIndexFailed == IndexFailed /\ pc = "failed" /\ Len(reqs) = 1

\* ---- C24 ---------------------------------------------------------------
Returned == pc \in {"done", "failed"}
\* main has returned Ok: every page URL of the index was requested, and the
\* post.info requests are the listed items, one per occurrence, in order
ReturnedOkAfterAll ==
  pc = "done" =>
    /\ err = None
    /\ resp_body = << >> /\ items = << >>
    /\ inflight = None /\ dl = None /\ info = None
    /\ TargetsOf(InfoReqs) = listed
    /\ Len(fetched) = Len(listed)
\* main has returned an Err exactly when an operation has failed
ReturnedErr ==
  (pc = "failed" <=> err # None)
FirstErrorStays ==
  /\ err # None => err' = err
  /\ Returned => UNCHANGED vars

\* C24: the run terminates. With every step taken that can be taken, main
\* returns: Ok after requesting every page URL and sending one post.info
\* request per listed item, one per occurrence, in the order listed, or the
\* first Err, which nothing replaces; after it has returned nothing changes.
C24_RunTerminates ==
  /\ <> Returned
  /\ [] ReturnedOkAfterAll
  /\ [] ReturnedErr
  /\ [][FirstErrorStays]_vars

\* main returned Ok after three posts over two pages, one post listed twice
C24_Witness ==
  /\ pc = "done"
  /\ Len(PageReqs) = 2
  /\ Len(InfoReqs) = 3
  /\ \E i, j \in 1..3 : i # j /\ listed[i] = listed[j]

\* main returned the error of a download of the second post
C24_WitnessErr ==
  /\ pc = "failed"
  /\ Failure.op = "download_to"
  /\ Len(InfoReqs) = 2

====
